---- MODULE Spec2Model ----
(***************************************************************************)
(* A model of the QBTM runtime (package runtime): the Value model with its *)
(* canonical encoding and QGID, the Gaussian-rational matrix layer, the    *)
(* content-addressed Store, the circuit interpreter (Executor.Execute) and *)
(* the binary container (EmbeddedBinary, Decode, Runner).                  *)
(*                                                                         *)
(* Conventions.                                                            *)
(*  - A byte string ([]byte, string, [32]byte) is a sequence of 0..255.    *)
(*  - A Value is a record whose field k names the Go type (Int, Rat,       *)
(*    Bytes, Text, Seq, Tag, Bool, Nil); the nil interface (a Circuit      *)
(*    whose Data was never set) is the record NoValue.                     *)
(*  - big.Int is an integer; big.Rat is a pair num/den in lowest terms     *)
(*    with den > 0, as math/big keeps it.                                  *)
(*  - Go's int is taken as 64 bits wide (the amd64/arm64 builds); every    *)
(*    quantity of the model stays far below that, so plain integers are    *)
(*    exact.                                                               *)
(*  - A call ends in one of four ways, recorded in the field kind of its   *)
(*    outcome: "ok" (a result, nil error), "err" (a non-nil error),        *)
(*    "nil" (a nil *Matrix together with a nil error) and "panic" (a Go    *)
(*    run-time panic: nil dereference, index out of range, makeslice).     *)
(***************************************************************************)
EXTENDS Integers, Sequences, FiniteSets, TLC

VARIABLES
    circuits,   \* Store.circuits : digest -> Circuit
    values,     \* Store.values   : digest -> Value
    binary,     \* Runner.binary, or NoBinary while no Runner was made
    op,         \* the last call made on the runtime, with its arguments
    ret         \* what that call returned

vars == <<circuits, values, binary, op, ret>>

(***************************************************************************)
(* Bounds of the model.                                                    *)
(***************************************************************************)
\* longest Seq of integers among the compared Values
MaxSeqLen == 3
\* longest Name and Version of a container
MaxNameLen == 2
\* the longest children list of a circuit
MaxChildren == 3
\* the largest block of an Object
MaxBlock == 2
\* the most rows and the most columns of an input matrix
MaxRows == 2

(***************************************************************************)
(* Byte strings.                                                           *)
(***************************************************************************)
Byte == 0..255

RECURSIVE Concat(_)
\* the concatenation of a sequence of byte strings (repeated append)
Concat(ss) == IF ss = <<>> THEN <<>> ELSE Head(ss) \o Concat(Tail(ss))

Take(s, n) == SubSeq(s, 1, n)
Drop(s, n) == SubSeq(s, n + 1, Len(s))

Abs(n) == IF n < 0 THEN -n ELSE n
Sign(n) == IF n < 0 THEN -1 ELSE IF n = 0 THEN 0 ELSE 1

RECURSIVE BigBytes(_)
\* big.Int.Bytes(): the big-endian magnitude, no leading zero byte
BigBytes(n) == IF n = 0 THEN <<>>
               ELSE Append(BigBytes(Abs(n) \div 256), Abs(n) % 256)

RECURSIVE BitLen(_)
\* big.Int.BitLen(): the length of the magnitude in bits
BitLen(n) == IF n = 0 THEN 0 ELSE 1 + BitLen(Abs(n) \div 2)

(***************************************************************************)
(* Values (value.go).                                                      *)
(***************************************************************************)
MakeInt(n) == [k |-> "Int", i |-> n]
MakeRat(n, d) == [k |-> "Rat", num |-> n, den |-> d]
MakeBytes(bs) == [k |-> "Bytes", b |-> bs]
MakeText(s) == [k |-> "Text", t |-> s]
MakeSeq(xs) == [k |-> "Seq", items |-> xs]
MakeTag(l, p) == [k |-> "Tag", label |-> l, payload |-> p]
MakeBool(x) == [k |-> "Bool", bool |-> x]
MakeNil == [k |-> "Nil"]
\* the nil interface value: a Value field that holds nothing
NoValue == [k |-> "none"]

RECURSIVE VarintLoop(_)
VarintLoop(n) == IF n >= 128
                 THEN <<((n % 128) + 128) % 256>> \o VarintLoop(n \div 128)
                 ELSE <<n % 256>>

encodeVarint(n) == IF n < 128 THEN <<n>> ELSE VarintLoop(n)

\* Int.Encode
EncodeInt(n) ==
    IF n = 0 THEN <<0>>
    ELSE IF Sign(n) > 0 /\ BitLen(n) <= 7 THEN <<n % 256>>
    ELSE <<IF Sign(n) < 0 THEN 128 ELSE 64, Len(BigBytes(n)) % 256>>
         \o BigBytes(n)

\* Rat.Encode
EncodeRat(n, d) ==
    IF n = 0 THEN <<144, 0>>
    ELSE <<144, IF n < 0 THEN 128 ELSE 0>>
         \o <<Len(BigBytes(n)) % 256>> \o BigBytes(n)
         \o <<Len(BigBytes(d)) % 256>> \o BigBytes(d)

RECURSIVE Encode(_)
\* Value.Encode, by the dynamic type of v
Encode(v) ==
    CASE v.k = "Int" -> EncodeInt(v.i)
      [] v.k = "Rat" -> EncodeRat(v.num, v.den)
      [] v.k = "Bytes" -> <<160>> \o encodeVarint(Len(v.b)) \o v.b
      [] v.k = "Text" -> <<176>> \o encodeVarint(Len(v.t)) \o v.t
      [] v.k = "Seq" -> <<192>> \o encodeVarint(Len(v.items))
                        \o Concat([j \in 1..Len(v.items) |-> Encode(v.items[j])])
      [] v.k = "Tag" -> <<208>> \o Encode(v.label) \o Encode(v.payload)
      [] v.k = "Bool" -> IF v.bool THEN <<225>> ELSE <<224>>
      [] v.k = "Nil" -> <<240>>

RECURSIVE Equal(_, _)
\* Equal: structural equality, by the dynamic type of a
Equal(a, b) ==
    CASE a.k = "Int" -> b.k = "Int" /\ a.i = b.i
      [] a.k = "Rat" -> b.k = "Rat" /\ a.num * b.den = b.num * a.den
      [] a.k = "Bytes" -> b.k = "Bytes" /\ Len(a.b) = Len(b.b)
                          /\ \A j \in 1..Len(a.b) : a.b[j] = b.b[j]
      [] a.k = "Text" -> b.k = "Text" /\ a.t = b.t
      [] a.k = "Seq" -> b.k = "Seq" /\ Len(a.items) = Len(b.items)
                        /\ \A j \in 1..Len(a.items) : Equal(a.items[j], b.items[j])
      [] a.k = "Tag" -> b.k = "Tag" /\ Equal(a.label, b.label)
                        /\ Equal(a.payload, b.payload)
      [] a.k = "Bool" -> b.k = "Bool" /\ a.bool = b.bool
      [] a.k = "Nil" -> b.k = "Nil"
      [] OTHER -> FALSE

(***************************************************************************)
(* QGID.  crypto/sha256 is outside the repository; it is represented by a  *)
(* 32-byte digest computed from every byte of its argument: two polynomial *)
(* checksums, with different bases and moduli, in the last four bytes.     *)
(* DigestSeparates, below, checks that it tells apart the encodings of all *)
(* the Values compared, which is what collision resistance gives the       *)
(* program.                                                                *)
(***************************************************************************)
DigestLen == 32

\* b^n mod p, for p below 2^15.5
RECURSIVE PowMod(_, _, _)
PowMod(b, n, p) ==
    IF n = 0 THEN 1
    ELSE LET q == PowMod(b, n \div 2, p)
         IN  IF n % 2 = 0 THEN (q * q) % p ELSE (((q * q) % p) * b) % p

\* the sum of (bs[j] + 1) * b^(hi - j) for j in lo..hi, mod p
RECURSIVE RollFrom(_, _, _, _, _)
RollFrom(bs, lo, hi, b, p) ==
    IF lo > hi THEN 0
    ELSE IF lo = hi THEN (bs[lo] + 1) % p
    ELSE LET mid == (lo + hi) \div 2
         IN  (RollFrom(bs, lo, mid, b, p) * PowMod(b, hi - mid, p)
              + RollFrom(bs, mid + 1, hi, b, p)) % p

\* sha256.Sum256
Sum256(bs) ==
    LET h == RollFrom(bs, 1, Len(bs), 251, 46337)
        g == RollFrom(bs, 1, Len(bs), 263, 46327)
    IN  [j \in 1..(DigestLen - 4) |-> 0]
        \o <<h \div 256, h % 256, g \div 256, g % 256>>

QGID(v) == Sum256(Encode(v))

(***************************************************************************)
(* Exact rationals (math/big.Rat): lowest terms, positive denominator.     *)
(***************************************************************************)
RECURSIVE GCD(_, _)
GCD(x, y) == IF y = 0 THEN x ELSE GCD(y, x % y)

\* the big.Rat with value n/d (d # 0), normalised as math/big does
Ratio(n, d) ==
    LET s == IF d < 0 THEN -1 ELSE 1
        g == GCD(Abs(n), Abs(d))
    IN  [num |-> (s * n) \div g, den |-> (s * d) \div g]

RatZero == [num |-> 0, den |-> 1]
RatOne == [num |-> 1, den |-> 1]
RatAdd(x, y) == Ratio(x.num * y.den + y.num * x.den, x.den * y.den)
RatSub(x, y) == Ratio(x.num * y.den - y.num * x.den, x.den * y.den)
RatMul(x, y) == Ratio(x.num * y.num, x.den * y.den)
RatNeg(x) == [num |-> -x.num, den |-> x.den]
\* big.Rat.Quo, for y # 0
RatQuo(x, y) == Ratio(x.num * y.den, x.den * y.num)
RatCmpEq(x, y) == x.num * y.den = y.num * x.den

(***************************************************************************)
(* Gaussian rationals (QI).                                                *)
(***************************************************************************)
NewQI(re, im) == [Re |-> re, Im |-> im]
QIZero == [Re |-> RatZero, Im |-> RatZero]
QIOne == [Re |-> RatOne, Im |-> RatZero]
QII == [Re |-> RatZero, Im |-> RatOne]
QINeg(q) == [Re |-> RatNeg(q.Re), Im |-> RatNeg(q.Im)]
QIAdd(x, y) == [Re |-> RatAdd(x.Re, y.Re), Im |-> RatAdd(x.Im, y.Im)]
QISub(x, y) == [Re |-> RatSub(x.Re, y.Re), Im |-> RatSub(x.Im, y.Im)]
QIMul(x, y) ==
    [Re |-> RatSub(RatMul(x.Re, y.Re), RatMul(x.Im, y.Im)),
     Im |-> RatAdd(RatMul(x.Re, y.Im), RatMul(x.Im, y.Re))]
QIConj(q) == [Re |-> q.Re, Im |-> RatNeg(q.Im)]
QINormSq(q) == RatAdd(RatMul(q.Re, q.Re), RatMul(q.Im, q.Im))
QIEqual(x, y) == RatCmpEq(x.Re, y.Re) /\ RatCmpEq(x.Im, y.Im)
QIIsZero(q) == q.Re.num = 0 /\ q.Im.num = 0
QIScale(q, r) == [Re |-> RatMul(q.Re, r), Im |-> RatMul(q.Im, r)]

MutQIInv(q) ==
    LET normSq == QINormSq(q)
    IN  IF normSq.num = 0 THEN [ok |-> FALSE, q |-> QIZero]
        ELSE [ok |-> TRUE,
              q |-> [Re |-> RatQuo(q.Re, normSq), Im |-> RatQuo(q.Im, normSq)]]

\* QIInv: (1/q, true), or (0, false) when |q|^2 = 0
QIInv(q) ==
    LET normSq == QINormSq(q)
    IN  IF normSq.num = 0 THEN [ok |-> FALSE, q |-> QIZero]
        ELSE [ok |-> TRUE,
              q |-> [Re |-> RatQuo(QIConj(q).Re, normSq),
                     Im |-> RatQuo(QIConj(q).Im, normSq)]]

\* QIDiv
QIDiv(x, y) ==
    IF ~QIInv(y).ok THEN [ok |-> FALSE, q |-> QIZero]
    ELSE [ok |-> TRUE, q |-> QIMul(x, QIInv(y).q)]

(***************************************************************************)
(* Matrices.  A *Matrix is a record mk = "mat" with Rows, Cols and the     *)
(* row-major Data; the nil pointer is NilMatrix.  An operation that would  *)
(* dereference nil, index Data out of range or make a slice of negative    *)
(* length yields PanicMatrix, and a panicking argument panics the call.    *)
(***************************************************************************)
NilMatrix == [mk |-> "nil"]
PanicMatrix == [mk |-> "panic"]
IsMat(m) == m.mk = "mat"

\* the loop bounds 0 <= i < n of the source
Upto(n) == 0..(n - 1)

MutNewMatrix(rows, cols) ==
    IF rows * cols < 0 THEN PanicMatrix
    ELSE [mk |-> "mat", Rows |-> rows, Cols |-> cols,
          Data |-> [x \in 1..(rows * cols) |-> QIOne]]

\* NewMatrix: make([]QI, rows*cols) panics on a negative length
NewMatrix(rows, cols) ==
    IF rows * cols < 0 THEN PanicMatrix
    ELSE [mk |-> "mat", Rows |-> rows, Cols |-> cols,
          Data |-> [x \in 1..(rows * cols) |-> QIZero]]

\* whether m.Data[i*m.Cols+j] is inside the slice
InRange(m, i, j) == (i * m.Cols + j) \in Upto(Len(m.Data))
\* Matrix.Get, where InRange
MatrixGet(m, i, j) == m.Data[i * m.Cols + j + 1]

\* the matrix of shape rows x cols that the loops of the source fill through
\* Set(i, j, f(i, j)) for i < rows, j < cols, starting from NewMatrix
Fill(rows, cols, f(_, _)) ==
    IF rows * cols < 0 THEN PanicMatrix
    ELSE [mk |-> "mat", Rows |-> rows, Cols |-> cols,
          Data |-> [x \in 1..(rows * cols) |->
                      IF rows > 0 /\ cols > 0
                      THEN f((x - 1) \div cols, (x - 1) % cols)
                      ELSE QIZero]]

Identity(n) == Fill(n, n, LAMBDA i, j : IF i = j THEN QIOne ELSE QIZero)
Zero(rows, cols) == NewMatrix(rows, cols)

RECURSIVE SumQI(_, _, _)
\* sum := QIZero(); for k := 0; k < n; k++ { sum = QIAdd(sum, term(k)) }
SumQI(term(_), k, n) ==
    IF k >= n THEN QIZero
    ELSE QIAdd(SumQI(term, k, n - 1), term(n - 1))

\* MatMul: nil when A.Cols # B.Rows
MatMul(A, B) ==
    IF A.mk = "panic" \/ B.mk = "panic" THEN PanicMatrix
    ELSE IF A.mk = "nil" \/ B.mk = "nil" THEN PanicMatrix
    ELSE IF A.Cols # B.Rows THEN NilMatrix
    ELSE Fill(A.Rows, B.Cols,
              LAMBDA i, j : SumQI(LAMBDA k : QIMul(MatrixGet(A, i, k), MatrixGet(B, k, j)),
                                  0, A.Cols))

\* MatAdd: nil when the shapes differ
MatAdd(A, B) ==
    IF A.mk = "panic" \/ B.mk = "panic" THEN PanicMatrix
    ELSE IF A.mk = "nil" \/ B.mk = "nil" THEN PanicMatrix
    ELSE IF A.Rows # B.Rows \/ A.Cols # B.Cols THEN NilMatrix
    ELSE IF A.Rows * A.Cols < 0 THEN PanicMatrix
    ELSE IF Len(A.Data) > Len(B.Data) \/ Len(A.Data) > A.Rows * A.Cols
         THEN PanicMatrix
    ELSE [mk |-> "mat", Rows |-> A.Rows, Cols |-> A.Cols,
          Data |-> [x \in 1..(A.Rows * A.Cols) |->
                      IF x <= Len(A.Data) THEN QIAdd(A.Data[x], B.Data[x])
                      ELSE QIZero]]

\* MatScale, r a big.Rat
MatScale(A, r) ==
    IF A.mk = "panic" THEN PanicMatrix
    ELSE IF A.mk = "nil" THEN PanicMatrix
    ELSE IF A.Rows * A.Cols < 0 THEN PanicMatrix
    ELSE IF Len(A.Data) > A.Rows * A.Cols THEN PanicMatrix
    ELSE [mk |-> "mat", Rows |-> A.Rows, Cols |-> A.Cols,
          Data |-> [x \in 1..(A.Rows * A.Cols) |->
                      IF x <= Len(A.Data) THEN QIScale(A.Data[x], r)
                      ELSE QIZero]]

\* Dagger: the conjugate transpose
Dagger(A) ==
    IF A.mk = "panic" THEN PanicMatrix
    ELSE IF A.mk = "nil" THEN PanicMatrix
    ELSE Fill(A.Cols, A.Rows, LAMBDA j, i : QIConj(MatrixGet(A, i, j)))

\* Trace: zero for a matrix that is not square
Trace(A) ==
    IF A.Rows # A.Cols THEN QIZero
    ELSE SumQI(LAMBDA i : MatrixGet(A, i, i), 0, A.Rows)

\* Kronecker
Kronecker(A, B) ==
    IF A.mk = "panic" \/ B.mk = "panic" THEN PanicMatrix
    ELSE IF A.mk = "nil" \/ B.mk = "nil" THEN PanicMatrix
    ELSE IF A.Rows <= 0 \/ A.Cols <= 0 \/ B.Rows <= 0 \/ B.Cols <= 0
         THEN NewMatrix(A.Rows * B.Rows, A.Cols * B.Cols)
    ELSE Fill(A.Rows * B.Rows, A.Cols * B.Cols,
              LAMBDA row, col : QIMul(MatrixGet(A, row \div B.Rows, col \div B.Cols),
                                      MatrixGet(B, row % B.Rows, col % B.Cols)))

\* MatrixEqual, for two non-nil matrices of consistent Data length
MatrixEqual(A, B) ==
    /\ A.Rows = B.Rows
    /\ A.Cols = B.Cols
    /\ \A x \in 1..Len(A.Data) : QIEqual(A.Data[x], B.Data[x])

MutClone(m) == m

\* Matrix.Clone
Clone(m) ==
    IF m.mk = "panic" THEN PanicMatrix
    ELSE IF m.mk = "nil" THEN PanicMatrix
    ELSE IF m.Rows * m.Cols < 0 THEN PanicMatrix
    ELSE IF Len(m.Data) > m.Rows * m.Cols THEN PanicMatrix
    ELSE [mk |-> "mat", Rows |-> m.Rows, Cols |-> m.Cols,
          Data |-> [x \in 1..(m.Rows * m.Cols) |->
                      IF x <= Len(m.Data) THEN NewQI(m.Data[x].Re, m.Data[x].Im)
                      ELSE QIZero]]

(***************************************************************************)
(* Matrices as Values.                                                     *)
(***************************************************************************)
TextMatrix == <<109, 97, 116, 114, 105, 120>>          \* "matrix"
TextQI == <<113, 105>>                                 \* "qi"
TextCircuit == <<99, 105, 114, 99, 117, 105, 116>>     \* "circuit"
TextObject == <<111, 98, 106, 101, 99, 116>>           \* "object"

MakeBigRat(r) == MakeRat(r.num, r.den)

QIToValue(q) ==
    MakeTag(MakeText(TextQI), MakeSeq(<<MakeBigRat(q.Re), MakeBigRat(q.Im)>>))

\* MatrixToValue, for a non-nil matrix
MatrixToValue(m) ==
    MakeTag(MakeText(TextMatrix),
            MakeSeq(<<MakeInt(m.Rows), MakeInt(m.Cols),
                      MakeSeq([x \in 1..Len(m.Data) |-> QIToValue(m.Data[x])])>>))

\* qiFromValue: whether v parses as a QI
qiOk(v) ==
    /\ v.k = "Tag"
    /\ v.label.k = "Text" /\ v.label.t = TextQI
    /\ v.payload.k = "Seq" /\ Len(v.payload.items) >= 2
    /\ v.payload.items[1].k = "Rat"
    /\ v.payload.items[2].k = "Rat"

MutQiFromValue(v) ==
    NewQI([num |-> v.payload.items[1].num, den |-> v.payload.items[1].den],
          RatZero)

\* qiFromValue: the QI parsed, where qiOk
qiFromValue(v) ==
    NewQI([num |-> v.payload.items[1].num, den |-> v.payload.items[1].den],
          [num |-> v.payload.items[2].num, den |-> v.payload.items[2].den])

\* the checks of MatrixFromValue that come before the matrix is allocated
matrixShapeOk(v) ==
    /\ v.k = "Tag"
    /\ v.label.k = "Text" /\ v.label.t = TextMatrix
    /\ v.payload.k = "Seq" /\ Len(v.payload.items) >= 3
    /\ v.payload.items[1].k = "Int"
    /\ v.payload.items[2].k = "Int"
    /\ v.payload.items[3].k = "Seq"

\* MatrixFromValue: st is "ok" (m, true), "fail" (nil, false) or "panic".
\* The entries are parsed and stored in order: entry x is parsed, which may
\* return false, and then stored at m.Data[x-1], which panics past the end.
MatrixFromValue(v) ==
    IF ~matrixShapeOk(v) THEN [st |-> "fail", m |-> NilMatrix]
    ELSE LET rows == v.payload.items[1].i
             cols == v.payload.items[2].i
             data == v.payload.items[3].items
             n == rows * cols
             bad == {x \in 1..Len(data) : ~qiOk(data[x])}
         IN  IF n < 0 THEN [st |-> "panic", m |-> PanicMatrix]
             ELSE IF \E x \in bad : x <= n + 1
                  THEN [st |-> "fail", m |-> NilMatrix]
             ELSE IF Len(data) > n THEN [st |-> "panic", m |-> PanicMatrix]
             ELSE [st |-> "ok",
                   m |-> [mk |-> "mat", Rows |-> rows, Cols |-> cols,
                          Data |-> [x \in 1..n |->
                                      IF x <= Len(data) THEN qiFromValue(data[x])
                                      ELSE QIZero]]]

(***************************************************************************)
(* Objects and circuits.  A Circuit is a record Domain, Codomain (Objects: *)
(* records with the field Blocks), Prim (the ordinal), Data (a Value, or   *)
(* NoValue) and Children (a sequence of 32-byte digests).                  *)
(***************************************************************************)
PrimId == 0
PrimCompose == 1
PrimTensor == 2
PrimSwap == 3
PrimBisum == 4
PrimInject == 5
PrimProject == 6
PrimCopy == 7
PrimDelete == 8
PrimEncode == 9
PrimDecode == 10
PrimDiscard == 11
PrimTrace == 12
PrimChoi == 13
PrimKraus == 14
PrimUnitary == 15
PrimInstrument == 16
PrimBranch == 17
PrimPrepare == 18
PrimAdd == 19
PrimScale == 20
PrimZero == 21
PrimAssert == 22
PrimWitness == 23

Object(blocks) == [Blocks |-> blocks]

\* Numbers beyond the range of the model's integers are kept as their ten
\* base-256 digits, least significant first: a uint32 fills four of them and
\* an int (64 bits) eight.
WideLen == 10

\* the digits of n, 0 <= n < 2^31
Wide(n) ==
    [j \in 1..WideLen |->
        CASE j = 1 -> n % 256
          [] j = 2 -> (n \div 256) % 256
          [] j = 3 -> (n \div 65536) % 256
          [] j = 4 -> n \div 16777216
          [] OTHER -> 0]

\* the carry into digit j of the digit sums cs
RECURSIVE CarryInto(_, _)
CarryInto(cs, j) ==
    IF j = 1 THEN 0 ELSE (cs[j - 1] + CarryInto(cs, j - 1)) \div 256

\* digit sums brought back to digits
Normalise(cs) == [j \in 1..WideLen |-> (cs[j] + CarryInto(cs, j)) % 256]

\* the sum over i = 1..k of a[i] * b[k + 1 - i]
RECURSIVE Convolve(_, _, _, _)
Convolve(a, b, k, i) ==
    IF i = 0 THEN 0 ELSE a[i] * b[k + 1 - i] + Convolve(a, b, k, i - 1)

WideAdd(a, b) == Normalise([j \in 1..WideLen |-> a[j] + b[j]])
WideMul(a, b) == Normalise([k \in 1..WideLen |-> Convolve(a, b, k, k)])

\* a value cut to a width of w bytes: the wrap-around of uint32 (4) and int (8)
Truncate(a, w) == [j \in 1..WideLen |-> IF j <= w THEN a[j] ELSE 0]

\* n * n for a uint32 n: the product modulo 2^32
SquareUint32(n) == Truncate(WideMul(Wide(n), Wide(n)), 4)

\* the number the digits a stand for, where the model's integers hold it
WideToInt(a) ==
    IF a[4] < 128 /\ \A j \in 5..WideLen : a[j] = 0
    THEN a[1] + 256 * a[2] + 65536 * a[3] + 16777216 * a[4]
    ELSE [wide |-> a]

\* dim after the first j blocks, dim += int(n * n), as digits
RECURSIVE SumSquaresWide(_, _)
SumSquaresWide(blocks, j) ==
    IF j = 0 THEN Wide(0)
    ELSE Truncate(WideAdd(SumSquaresWide(blocks, j - 1), SquareUint32(blocks[j])), 8)

\* objectDim as digits
objectDimWide(obj) ==
    IF Len(obj.Blocks) = 0 THEN Wide(1)
    ELSE SumSquaresWide(obj.Blocks, Len(obj.Blocks))

\* dim after the first j blocks, for blocks below 2^8: no square wraps and
\* the sum stays an integer of the model
RECURSIVE SumSquares(_, _)
SumSquares(blocks, j) ==
    IF j = 0 THEN 0 ELSE SumSquares(blocks, j - 1) + blocks[j] * blocks[j]

\* objectDim: computed on integers where every block is below 2^8, which
\* gives the same number as the digits do, and on digits otherwise
objectDim(obj) ==
    IF Len(obj.Blocks) = 0 THEN 1
    ELSE IF \A j \in 1..Len(obj.Blocks) : obj.Blocks[j] < 256
         THEN SumSquares(obj.Blocks, Len(obj.Blocks))
    ELSE WideToInt(objectDimWide(obj))

ObjectToValue(obj) ==
    MakeTag(MakeText(TextObject),
            MakeSeq([j \in 1..Len(obj.Blocks) |-> MakeInt(obj.Blocks[j])]))

ObjectEqual(x, y) ==
    /\ Len(x.Blocks) = Len(y.Blocks)
    /\ \A j \in 1..Len(x.Blocks) : x.Blocks[j] = y.Blocks[j]

\* CircuitToValue: absent data is written as Nil
CircuitToValue(c) ==
    MakeTag(MakeText(TextCircuit),
            MakeSeq(<<ObjectToValue(c.Domain),
                      ObjectToValue(c.Codomain),
                      MakeInt(c.Prim),
                      IF c.Data.k = "none" THEN MakeNil ELSE c.Data,
                      MakeSeq([j \in 1..Len(c.Children) |-> MakeBytes(c.Children[j])])>>))

\* uint32(n) of an int64 n: n itself from 0 up, and for a negative n the
\* number 2^32 + n, which is kept as the record [wrapped |-> n]
Uint32(n) == IF n >= 0 THEN n ELSE [wrapped |-> n]

\* ObjectFromValue: ok is the bool returned
ObjectFromValue(v) ==
    IF v.k # "Tag" THEN [ok |-> FALSE]
    ELSE IF v.label.k # "Text" \/ v.label.t # TextObject THEN [ok |-> FALSE]
    ELSE IF v.payload.k # "Seq" THEN [ok |-> FALSE]
    ELSE IF \E j \in 1..Len(v.payload.items) : v.payload.items[j].k # "Int"
         THEN [ok |-> FALSE]
    ELSE [ok |-> TRUE,
          obj |-> Object([j \in 1..Len(v.payload.items) |->
                            Uint32(v.payload.items[j].i)])]

\* CircuitFromValue: the data item is taken as it is, and each child is the
\* first 32 bytes of its Bytes item
CircuitFromValue(v) ==
    IF v.k # "Tag" THEN [ok |-> FALSE]
    ELSE IF v.label.k # "Text" \/ v.label.t # TextCircuit THEN [ok |-> FALSE]
    ELSE IF v.payload.k # "Seq" THEN [ok |-> FALSE]
    ELSE IF Len(v.payload.items) < 5 THEN [ok |-> FALSE]
    ELSE LET items == v.payload.items
             domain == ObjectFromValue(items[1])
             codomain == ObjectFromValue(items[2])
         IN  IF ~domain.ok THEN [ok |-> FALSE]
             ELSE IF ~codomain.ok THEN [ok |-> FALSE]
             ELSE IF items[3].k # "Int" THEN [ok |-> FALSE]
             ELSE IF items[5].k # "Seq" THEN [ok |-> FALSE]
             ELSE IF \E j \in 1..Len(items[5].items) :
                        \/ items[5].items[j].k # "Bytes"
                        \/ Len(items[5].items[j].b) < DigestLen
                  THEN [ok |-> FALSE]
             ELSE [ok |-> TRUE,
                   c |-> [Domain |-> domain.obj,
                          Codomain |-> codomain.obj,
                          Prim |-> items[3].i,
                          Data |-> items[4],
                          Children |-> [j \in 1..Len(items[5].items) |->
                                          Take(items[5].items[j].b, DigestLen)]]]

(***************************************************************************)
(* The Store.  Its two maps are functions from digests.                    *)
(***************************************************************************)
EmptyMap == <<>>

\* m[key] = val of a Go map
MapSet(m, key, val) ==
    [x \in (DOMAIN m) \cup {key} |-> IF x = key THEN val ELSE m[x]]

MutPutKey(c) == QGID(ObjectToValue(c.Domain))

\* the key Store.Put files c under
PutKey(c) == QGID(CircuitToValue(c))

MutPutCircuits(cs, c) ==
    MapSet(cs, PutKey(c), [c EXCEPT !.Data = IF @.k = "none" THEN MakeNil ELSE @])

\* Store.Put on the circuit map: s.circuits[id] = c
PutCircuits(cs, c) == MapSet(cs, PutKey(c), c)
\* Store.Put on the value map: s.values[id] = v
PutValues(vs, c) == MapSet(vs, PutKey(c), CircuitToValue(c))
\* Store.PutValue: s.values[QGID(v)] = v
PutValue(vs, v) == MapSet(vs, QGID(v), v)

\* Store.Get
Get(cs, id) == IF id \in DOMAIN cs THEN [ok |-> TRUE, c |-> cs[id]]
               ELSE [ok |-> FALSE]

(***************************************************************************)
(* The interpreter.  An outcome of Execute is                              *)
(*   [kind |-> "ok", m |-> M]      (M, nil)                                *)
(*   [kind |-> "err", msg |-> s]   (nil, fmt.Errorf(s))                   *)
(*   [kind |-> "nil"]              (nil, nil)                              *)
(*   [kind |-> "panic"]            the call panics                         *)
(***************************************************************************)
Err(s) == [kind |-> "err", msg |-> s]
Panic == [kind |-> "panic"]

\* return M, nil for a matrix expression M of the source
Return(M) ==
    CASE M.mk = "panic" -> Panic
      [] M.mk = "nil" -> [kind |-> "nil"]
      [] OTHER -> [kind |-> "ok", m |-> M]

\* the *Matrix a caller holds after a call that returned without error
Result(r) == IF r.kind = "ok" THEN r.m ELSE NilMatrix

\* applySwap: the identity permutation P, and P * input * P^dagger
applySwap(domain, codomain, input) ==
    Return(MatMul(MatMul(Identity(objectDim(domain)), input),
                  Dagger(Identity(objectDim(domain)))))

MutApplyDiscard(domain, input) ==
    IF input.mk = "nil" THEN Panic
    ELSE IF input.Rows # objectDim(domain) \/ input.Cols # objectDim(domain)
         THEN Err("shape mismatch")
    ELSE Return(Fill(1, 1, LAMBDA i, j : Trace(input)))

\* applyDiscard: the trace as a 1x1 matrix
applyDiscard(domain, input) ==
    IF input.mk = "nil" THEN Panic
    ELSE Return(Fill(1, 1, LAMBDA i, j : Trace(input)))

\* applyUnitary: U * input * U^dagger
applyUnitary(c, input) ==
    LET U == MatrixFromValue(c.Data)
    IN  CASE U.st = "panic" -> Panic
          [] U.st = "fail" -> Err("unitary data must be matrix")
          [] OTHER -> Return(MatMul(MatMul(U.m, input), Dagger(U.m)))

MutApplyChoi(c, input) ==
    LET J == MatrixFromValue(c.Data)
        inDim == objectDim(c.Domain)
        outDim == objectDim(c.Codomain)
        term(i, j, k, l) ==
            IF k * outDim + i < J.m.Rows /\ l * outDim + j < J.m.Cols
            THEN QIMul(MatrixGet(input, k, l),
                       MatrixGet(J.m, k * outDim + i, l * outDim + j))
            ELSE QIZero
    IN  CASE J.st = "panic" -> Panic
          [] J.st = "fail" -> Err("choi data must be matrix")
          [] outDim > 0 /\ inDim > 0
             /\ (input.mk = "nil"
                 \/ \E l \in Upto(inDim), k \in Upto(inDim) : ~InRange(input, l, k)) ->
                 Panic
          [] OTHER ->
                 Return(Fill(outDim, outDim,
                             LAMBDA i, j :
                                 SumQI(LAMBDA x : term(i, j, x \div inDim, x % inDim),
                                       0, inDim * inDim)))

\* applyChoi
applyChoi(c, input) ==
    LET J == MatrixFromValue(c.Data)
        inDim == objectDim(c.Domain)
        outDim == objectDim(c.Codomain)
        term(i, j, k, l) ==
            IF k * outDim + i < J.m.Rows /\ l * outDim + j < J.m.Cols
            THEN QIMul(MatrixGet(input, l, k),
                       MatrixGet(J.m, k * outDim + i, l * outDim + j))
            ELSE QIZero
    IN  CASE J.st = "panic" -> Panic
          [] J.st = "fail" -> Err("choi data must be matrix")
          [] outDim > 0 /\ inDim > 0
             /\ (input.mk = "nil"
                 \/ \E l \in Upto(inDim), k \in Upto(inDim) : ~InRange(input, l, k)) ->
                 Panic
          [] OTHER ->
                 Return(Fill(outDim, outDim,
                             LAMBDA i, j :
                                 SumQI(LAMBDA x : term(i, j, x \div inDim, x % inDim),
                                       0, inDim * inDim)))

\* applyPrepare
applyPrepare(c) ==
    LET rho == MatrixFromValue(c.Data)
    IN  CASE rho.st = "panic" -> Panic
          [] rho.st = "fail" -> Err("prepare data must be matrix")
          [] OTHER -> Return(Clone(rho.m))

RECURSIVE Execute(_, _, _)
\* Executor.Execute on the store whose circuit map is cs; input is a matrix or
\* NilMatrix (what a caller passes on after a (nil, nil) return)
\* the zero Circuit a failed map lookup gives: Circuit{}
ZeroCircuit ==
    [Domain |-> Object(<<>>), Codomain |-> Object(<<>>), Prim |-> PrimId,
     Data |-> NoValue, Children |-> <<>>]

MutExecComposeEager(cs, c, input) ==
    IF Len(c.Children) # 2 THEN Err("compose requires 2 children")
    ELSE IF ~Get(cs, c.Children[1]).ok THEN Err("child 0 not found")
    ELSE LET intermediate == Execute(cs, Get(cs, c.Children[1]).c, input)
         IN  IF intermediate.kind \in {"err", "panic"} THEN intermediate
             ELSE IF ~Get(cs, c.Children[2]).ok THEN Err("child 1 not found")
             ELSE Execute(cs, Get(cs, c.Children[2]).c, Result(intermediate))

MutExecComposeLenient(cs, c, input) ==
    IF Len(c.Children) # 2 THEN Err("compose requires 2 children")
    ELSE IF ~Get(cs, c.Children[1]).ok THEN Err("child 0 not found")
    ELSE IF ~Get(cs, c.Children[2]).ok THEN Err("child 1 not found")
    ELSE LET intermediate == Execute(cs, Get(cs, c.Children[1]).c, input)
         IN  IF intermediate.kind = "panic" THEN intermediate
             ELSE IF intermediate.kind = "err"
                  THEN Execute(cs, Get(cs, c.Children[2]).c, input)
             ELSE Execute(cs, Get(cs, c.Children[2]).c, Result(intermediate))

MutExecCompose(cs, c, input) ==
    IF Len(c.Children) # 2 THEN Err("compose requires 2 children")
    ELSE IF ~Get(cs, c.Children[1]).ok THEN Err("child 0 not found")
    ELSE IF ~Get(cs, c.Children[2]).ok THEN Err("child 1 not found")
    ELSE LET intermediate == Execute(cs, Get(cs, c.Children[2]).c, input)
         IN  IF intermediate.kind \in {"err", "panic"} THEN intermediate
             ELSE Execute(cs, Get(cs, c.Children[1]).c, Result(intermediate))

\* case PrimCompose
ExecCompose(cs, c, input) ==
    IF Len(c.Children) # 2 THEN Err("compose requires 2 children")
    ELSE IF ~Get(cs, c.Children[1]).ok THEN Err("child 0 not found")
    ELSE IF ~Get(cs, c.Children[2]).ok THEN Err("child 1 not found")
    ELSE LET intermediate == Execute(cs, Get(cs, c.Children[1]).c, input)
         IN  IF intermediate.kind \in {"err", "panic"} THEN intermediate
             ELSE Execute(cs, Get(cs, c.Children[2]).c, Result(intermediate))

MutExecTensor(cs, c, input) ==
    IF Len(c.Children) # 2 THEN Err("tensor requires 2 children")
    ELSE IF ~Get(cs, c.Children[1]).ok THEN Err("child 0 not found")
    ELSE IF ~Get(cs, c.Children[2]).ok THEN Err("child 1 not found")
    ELSE LET fResult == Execute(cs, Get(cs, c.Children[1]).c, input)
             gResult == Execute(cs, Get(cs, c.Children[2]).c, input)
         IN  IF fResult.kind \in {"err", "panic"} THEN fResult
             ELSE IF gResult.kind \in {"err", "panic"} THEN gResult
             ELSE Return(Kronecker(Result(fResult), Result(gResult)))

\* case PrimTensor
ExecTensor(cs, c, input) ==
    IF Len(c.Children) # 2 THEN Err("tensor requires 2 children")
    ELSE IF ~Get(cs, c.Children[1]).ok THEN Err("child 0 not found")
    ELSE IF ~Get(cs, c.Children[2]).ok THEN Err("child 1 not found")
    ELSE LET f == Get(cs, c.Children[1]).c
             g == Get(cs, c.Children[2]).c
             fResult == Execute(cs, f, Identity(objectDim(f.Domain)))
             gResult == Execute(cs, g, Identity(objectDim(g.Domain)))
         IN  IF fResult.kind \in {"err", "panic"} THEN fResult
             ELSE IF gResult.kind \in {"err", "panic"} THEN gResult
             ELSE Return(Kronecker(Result(fResult), Result(gResult)))

MutExecAdd(cs, c, input) ==
    IF Len(c.Children) # 2 THEN Err("add requires 2 children")
    ELSE IF ~Get(cs, c.Children[1]).ok THEN Err("child 0 not found")
    ELSE LET g == IF Get(cs, c.Children[2]).ok THEN Get(cs, c.Children[2]).c
                  ELSE ZeroCircuit
             fResult == Execute(cs, Get(cs, c.Children[1]).c, input)
             gResult == Execute(cs, g, input)
         IN  IF fResult.kind \in {"err", "panic"} THEN fResult
             ELSE IF gResult.kind \in {"err", "panic"} THEN gResult
             ELSE Return(MatAdd(Result(fResult), Result(gResult)))

\* case PrimAdd
ExecAdd(cs, c, input) ==
    IF Len(c.Children) # 2 THEN Err("add requires 2 children")
    ELSE IF ~Get(cs, c.Children[1]).ok THEN Err("child 0 not found")
    ELSE IF ~Get(cs, c.Children[2]).ok THEN Err("child 1 not found")
    ELSE LET fResult == Execute(cs, Get(cs, c.Children[1]).c, input)
             gResult == Execute(cs, Get(cs, c.Children[2]).c, input)
         IN  IF fResult.kind \in {"err", "panic"} THEN fResult
             ELSE IF gResult.kind \in {"err", "panic"} THEN gResult
             ELSE Return(MatAdd(Result(fResult), Result(gResult)))

MutExecScale(cs, c, input) ==
    IF Len(c.Children) < 1 THEN Err("scale requires 1 child")
    ELSE IF c.Data.k # "Rat" THEN Err("scale data must be Rat")
    ELSE IF ~Get(cs, c.Children[1]).ok THEN Err("child not found")
    ELSE LET result == Execute(cs, Get(cs, c.Children[1]).c, input)
         IN  IF result.kind \in {"err", "panic"} THEN result
             ELSE Return(MatScale(Result(result),
                                  [num |-> c.Data.num, den |-> c.Data.den]))

MutExecScaleLate(cs, c, input) ==
    IF Len(c.Children) # 1 THEN Err("scale requires 1 child")
    ELSE IF ~Get(cs, c.Children[1]).ok THEN Err("child not found")
    ELSE LET result == Execute(cs, Get(cs, c.Children[1]).c, input)
         IN  IF result.kind \in {"err", "panic"} THEN result
             ELSE IF c.Data.k # "Rat" THEN Err("scale data must be Rat")
             ELSE Return(MatScale(Result(result),
                                  [num |-> c.Data.num, den |-> c.Data.den]))

\* case PrimScale
ExecScale(cs, c, input) ==
    IF Len(c.Children) # 1 THEN Err("scale requires 1 child")
    ELSE IF c.Data.k # "Rat" THEN Err("scale data must be Rat")
    ELSE IF ~Get(cs, c.Children[1]).ok THEN Err("child not found")
    ELSE LET result == Execute(cs, Get(cs, c.Children[1]).c, input)
         IN  IF result.kind \in {"err", "panic"} THEN result
             ELSE Return(MatScale(Result(result),
                                  [num |-> c.Data.num, den |-> c.Data.den]))

MutExecute(cs, c, input) ==
    CASE c.Prim = PrimId -> Return(Clone(input))
      [] c.Prim = PrimCompose -> ExecCompose(cs, c, input)
      [] c.Prim = PrimTensor -> ExecTensor(cs, c, input)
      [] c.Prim = PrimSwap -> applySwap(c.Domain, c.Codomain, input)
      [] c.Prim \in {PrimDiscard, PrimTrace} -> applyDiscard(c.Domain, input)
      [] c.Prim = PrimZero ->
            Return(NewMatrix(objectDim(c.Codomain), objectDim(c.Codomain)))
      [] c.Prim = PrimUnitary -> applyUnitary(c, input)
      [] c.Prim = PrimChoi -> applyChoi(c, input)
      [] c.Prim = PrimPrepare -> applyPrepare(c)
      [] c.Prim = PrimAdd -> ExecAdd(cs, c, input)
      [] c.Prim = PrimScale -> ExecScale(cs, c, input)
      [] OTHER -> Err("unsupported primitive")

\* Executor.Execute: the switch on c.Prim
Execute(cs, c, input) ==
    CASE c.Prim = PrimId -> Return(Clone(input))
      [] c.Prim = PrimCompose -> ExecCompose(cs, c, input)
      [] c.Prim = PrimTensor -> ExecTensor(cs, c, input)
      [] c.Prim = PrimSwap -> applySwap(c.Domain, c.Codomain, input)
      [] c.Prim = PrimDiscard -> applyDiscard(c.Domain, input)
      [] c.Prim = PrimZero ->
            Return(NewMatrix(objectDim(c.Codomain), objectDim(c.Codomain)))
      [] c.Prim = PrimUnitary -> applyUnitary(c, input)
      [] c.Prim = PrimChoi -> applyChoi(c, input)
      [] c.Prim = PrimPrepare -> applyPrepare(c)
      [] c.Prim = PrimAdd -> ExecAdd(cs, c, input)
      [] c.Prim = PrimScale -> ExecScale(cs, c, input)
      [] OTHER -> Err("unsupported primitive")

(***************************************************************************)
(* The binary container (EmbeddedBinary) and the Runner.                   *)
(***************************************************************************)
Magic == <<81, 77, 66, 1>>                             \* "QMB\x01"

\* the four bytes byte(n>>24), byte(n>>16), byte(n>>8), byte(n)
BigEndian32(n) ==
    <<(n \div 16777216) % 256, (n \div 65536) % 256, (n \div 256) % 256, n % 256>>

\* int(d[o])<<24 | int(d[o+1])<<16 | int(d[o+2])<<8 | int(d[o+3]), o counted from 0
ReadLen(d, o) ==
    d[o + 1] * 16777216 + d[o + 2] * 65536 + d[o + 3] * 256 + d[o + 4]

MutBinaryEncode(e) ==
    e.Magic \o e.Entrypoint
    \o BigEndian32(Len(e.Name)) \o e.Name
    \o BigEndian32(Len(e.Name)) \o e.Version
    \o e.StoreData

\* EmbeddedBinary.Encode
BinaryEncode(e) ==
    e.Magic \o e.Entrypoint
    \o BigEndian32(Len(e.Name)) \o e.Name
    \o BigEndian32(Len(e.Version)) \o e.Version
    \o e.StoreData

MutDecode(data) ==
    IF Len(data) < 4 THEN [ok |-> FALSE, err |-> "data too short"]
    ELSE IF Len(data) < 36 THEN [ok |-> FALSE, err |-> "data too short for entrypoint"]
    ELSE IF Len(data) < 40 THEN [ok |-> FALSE, err |-> "data too short for name length"]
    ELSE LET nameLen == ReadLen(data, 36)
         IN  IF Len(data) < 40 + nameLen
             THEN [ok |-> FALSE, err |-> "data too short for name"]
             ELSE IF Len(data) < 40 + nameLen + 4
             THEN [ok |-> FALSE, err |-> "data too short for version length"]
             ELSE LET versionLen == ReadLen(data, 40 + nameLen)
                      offset == 44 + nameLen
                  IN  IF Len(data) < offset + versionLen
                      THEN [ok |-> FALSE, err |-> "data too short for version"]
                      ELSE [ok |-> TRUE,
                            b |-> [Magic |-> SubSeq(data, 1, 4),
                                   Entrypoint |-> SubSeq(data, 5, 36),
                                   Name |-> SubSeq(data, 41, 40 + nameLen),
                                   Version |-> SubSeq(data, offset + 1, offset + versionLen),
                                   StoreData |-> Drop(data, offset + versionLen)]]

\* Decode: (b, nil) or (nil, err)
Decode(data) ==
    IF Len(data) < 4 THEN [ok |-> FALSE, err |-> "data too short"]
    ELSE IF data[1] # 81 \/ data[2] # 77 \/ data[3] # 66 \/ data[4] # 1
         THEN [ok |-> FALSE, err |-> "invalid magic"]
    ELSE IF Len(data) < 36 THEN [ok |-> FALSE, err |-> "data too short for entrypoint"]
    ELSE IF Len(data) < 40 THEN [ok |-> FALSE, err |-> "data too short for name length"]
    ELSE LET nameLen == ReadLen(data, 36)
         IN  IF Len(data) < 40 + nameLen
             THEN [ok |-> FALSE, err |-> "data too short for name"]
             ELSE IF Len(data) < 40 + nameLen + 4
             THEN [ok |-> FALSE, err |-> "data too short for version length"]
             ELSE LET versionLen == ReadLen(data, 40 + nameLen)
                      offset == 44 + nameLen
                  IN  IF Len(data) < offset + versionLen
                      THEN [ok |-> FALSE, err |-> "data too short for version"]
                      ELSE [ok |-> TRUE,
                            b |-> [Magic |-> SubSeq(data, 1, 4),
                                   Entrypoint |-> SubSeq(data, 5, 36),
                                   Name |-> SubSeq(data, 41, 40 + nameLen),
                                   Version |-> SubSeq(data, offset + 1, offset + versionLen),
                                   StoreData |-> Drop(data, offset + versionLen)]]

\* decodeValue (the simplified decoder)
decodeValue(data) ==
    IF Len(data) = 0 THEN MakeNil
    ELSE CASE data[1] = 0 -> MakeInt(0)
           [] data[1] = 240 -> MakeNil
           [] data[1] = 224 -> MakeBool(FALSE)
           [] data[1] = 225 -> MakeBool(TRUE)
           [] OTHER -> MakeBytes(data)

RECURSIVE PutValueAll(_, _, _)
\* for _, item := range items { store.PutValue(item) }
PutValueAll(vs, items, j) ==
    IF j > Len(items) THEN vs
    ELSE PutValueAll(PutValue(vs, items[j]), items, j + 1)

\* importValues, on the value map (the circuit map is not touched)
importValues(vs, v) ==
    IF v.k = "Seq" THEN PutValueAll(vs, v.items, 1) ELSE PutValue(vs, v)

\* loadStoreData, on the value map (the circuit map is not touched)
loadStoreData(vs, data) ==
    IF Len(data) = 0 THEN vs ELSE importValues(vs, decodeValue(data))

(***************************************************************************)
(* The inputs of the model.                                                *)
(***************************************************************************)
\* integers on both sides of every case of Int.Encode
IntPool == {1, 5, 64, 128, -5}

IntSeqs ==
    UNION {{MakeSeq([j \in 1..n |-> MakeInt(f[j])]) : f \in [1..n -> IntPool]} :
           n \in 0..MaxSeqLen}

ValueUniverse ==
    IntSeqs
    \cup {MakeInt(n) : n \in IntPool \cup {0, 127, 300, -128}}
    \cup {MakeRat(0, 1), MakeRat(1, 1), MakeRat(-1, 2), MakeRat(300, 7)}
    \cup {MakeBytes(<<>>), MakeBytes(<<1>>), MakeBytes(<<1, 1>>)}
    \cup {MakeText(<<>>), MakeText(<<1>>), MakeText(TextQI)}
    \cup {MakeBool(TRUE), MakeBool(FALSE), MakeNil}
    \cup {MakeTag(MakeText(TextQI), MakeInt(1)), MakeTag(MakeInt(1), MakeNil),
          MakeTag(MakeRat(0, 1), MakeInt(1)),
          MakeSeq(<<MakeSeq(<<>>), MakeNil>>),
          MakeSeq(<<MakeSeq(<<MakeNil>>)>>),
          MakeSeq(<<MakeBytes(<<1>>), MakeText(<<1>>)>>)}

Circuit(dom, cod, prim, data, children) ==
    [Domain |-> dom, Codomain |-> cod, Prim |-> prim, Data |-> data,
     Children |-> children]

OUnit == Object(<<>>)        \* dimension 1
O1 == Object(<<1>>)          \* dimension 1
O2 == Object(<<1, 1>>)       \* dimension 2

Q(n, d) == NewQI(Ratio(n, d), RatZero)
Mat(rows, cols, data) == [mk |-> "mat", Rows |-> rows, Cols |-> cols, Data |-> data]
M1 == Mat(1, 1, <<Q(1, 2)>>)
I2 == Identity(2)
Col2 == Mat(2, 1, <<Q(1, 1), Q(2, 1)>>)
InputPool == {M1, I2, Col2}

SeqA == MakeSeq(<<MakeInt(64), MakeInt(1), MakeInt(-5)>>)
SeqB == MakeSeq(<<MakeInt(128), MakeInt(1), MakeInt(5)>>)

\* circuits that are put into the store
cId == Circuit(O1, O1, PrimId, NoValue, <<>>)
cIdNil == Circuit(O1, O1, PrimId, MakeNil, <<>>)
cZero == Circuit(OUnit, O2, PrimZero, NoValue, <<>>)
cNoteA == Circuit(O1, O1, PrimId, SeqA, <<>>)
cNoteB == Circuit(O1, O1, PrimId, SeqB, <<>>)
StorePool == {cId, cIdNil, cZero, cNoteA, cNoteB}
\* the circuits among them that executed circuits name as children
ChildPool == {cId, cZero}

\* values that are put into the store
StoreValuePool == {MakeInt(42), SeqA, SeqB}

\* a digest no circuit of the model has
Missing == [j \in 1..DigestLen |-> 255]

\* matrix Values that are not well formed
LongMatrix ==
    MakeTag(MakeText(TextMatrix),
            MakeSeq(<<MakeInt(1), MakeInt(1),
                      MakeSeq(<<QIToValue(QIOne), QIToValue(QIOne)>>)>>))
NegMatrix ==
    MakeTag(MakeText(TextMatrix),
            MakeSeq(<<MakeInt(-1), MakeInt(1), MakeSeq(<<>>)>>))
NegNegMatrix ==
    MakeTag(MakeText(TextMatrix),
            MakeSeq(<<MakeInt(-1), MakeInt(-1), MakeSeq(<<>>)>>))
BadEntryMatrix ==
    MakeTag(MakeText(TextMatrix),
            MakeSeq(<<MakeInt(1), MakeInt(1), MakeSeq(<<MakeInt(1)>>)>>))
DataPool ==
    {MatrixToValue(M1), MatrixToValue(I2), LongMatrix, NegMatrix, NegNegMatrix,
     BadEntryMatrix, MakeInt(7), MakeTag(MakeText(TextQI), MakeNil), NoValue}

\* digests used as children: of the two circuits that get stored, and of none
KeyPool == {PutKey(cId), PutKey(cZero), Missing}

\* children lists: every list of up to two digests, and longer ones
ChildLists ==
    UNION {[1..n -> KeyPool] : n \in 0..2}
    \cup {[j \in 1..n |-> k] : n \in 3..MaxChildren, k \in KeyPool}

\* circuits of the primitives that have children, with and without a factor
NodePool ==
    {Circuit(O1, O1, prim, NoValue, ch) :
        prim \in {PrimCompose, PrimTensor, PrimAdd, PrimScale}, ch \in ChildLists}
    \cup {Circuit(O1, O1, PrimScale, MakeRat(1, 2), ch) : ch \in ChildLists}

\* a circuit of every primitive ordinal, and of the ordinals next to them
PrimPool ==
    {Circuit(O1, O2, prim, data, <<>>) :
        prim \in (PrimId - 1)..(PrimWitness + 1), data \in {NoValue, MatrixToValue(M1)}}

\* circuits that are executed
ExecPool ==
    ChildPool
    \cup {Circuit(O1, O1, PrimCompose, NoValue, <<PutKey(cId), PutKey(cId)>>),
          Circuit(OUnit, O1, PrimCompose, NoValue, <<PutKey(cZero), PutKey(cId)>>),
          Circuit(O1, O2, PrimCompose, NoValue, <<PutKey(cId), PutKey(cZero)>>),
          Circuit(O1, O1, PrimCompose, NoValue, <<PutKey(cId), Missing>>),
          Circuit(O1, O1, PrimCompose, NoValue, <<PutKey(cId)>>),
          Circuit(O1, O1, PrimAdd, NoValue, <<PutKey(cId), PutKey(cId)>>),
          Circuit(O1, O1, PrimAdd, NoValue, <<PutKey(cId), PutKey(cZero)>>),
          Circuit(O2, O2, PrimSwap, NoValue, <<>>),
          Circuit(O1, O1, PrimSwap, NoValue, <<>>),
          Circuit(O2, OUnit, PrimDiscard, NoValue, <<>>),
          Circuit(O1, O1, PrimTrace, NoValue, <<>>)}
    \cup {Circuit(O1, O1, prim, data, <<>>) :
            prim \in {PrimUnitary, PrimChoi, PrimPrepare}, data \in DataPool}
    \cup NodePool
    \cup PrimPool

\* Objects with up to two blocks
ObjectPool ==
    {Object(blocks) : blocks \in UNION {[1..n -> 0..MaxBlock] : n \in 0..2}}

\* circuits to convert: every Object as domain, data absent, Nil, a number
\* and a matrix, every children list, and primitives inside and outside
\* the enumeration
RoundTripPool ==
    {Circuit(dom, cod, prim, data, ch) :
        dom \in ObjectPool, cod \in {OUnit, O2},
        prim \in {PrimId, PrimScale, PrimWitness + 1},
        data \in {NoValue, MakeNil, MakeRat(1, 2), MatrixToValue(M1)},
        ch \in ChildLists}

\* entries of the matrices to convert
EntryPool ==
    {QIZero, NewQI(Ratio(1, 2), Ratio(-3, 1)), NewQI(Ratio(-2, 3), RatOne)}

\* matrices with len(Data) = Rows*Cols: every shape from -1 to MaxRows rows
\* and columns whose product is not negative, every choice of entries
MatrixPool ==
    UNION {{Mat(sh[1], sh[2], data) : data \in [1..(sh[1] * sh[2]) -> EntryPool]} :
              sh \in {x \in (-1..MaxRows) \X (-1..MaxRows) : x[1] * x[2] >= 0}}

\* block sizes around the widths at which a square could wrap
BlockPool == {1, 2, 3, 255, 256, 65535, 65536, 65537, 2147483647}

\* Objects of up to MaxBlock blocks of these sizes
DimPool ==
    {Object(blocks) : blocks \in UNION {[1..n -> BlockPool] : n \in 0..MaxBlock}}

\* rationals of both signs, zero among them
RatPool == {Ratio(0, 1), Ratio(1, 1), Ratio(-1, 1), Ratio(1, 2), Ratio(-2, 3), Ratio(3, 1)}

\* Gaussian rationals: every pair of them, and three numerators
QIPool == {NewQI(re, im) : re \in RatPool, im \in RatPool}
NumeratorPool == {QIZero, QIOne, NewQI(Ratio(1, 2), Ratio(-3, 1))}

\* Values to construct twice: every Value of the universe that is not a
\* sequence, and three sequences
TwicePool ==
    {v \in ValueUniverse : v.k # "Seq"} \cup {SeqA, SeqB, MakeSeq(<<>>)}

\* the matrix object the caller of Execute holds: the field held tells it
\* apart from every matrix the runtime allocates
Held(m) ==
    [mk |-> "mat", Rows |-> m.Rows, Cols |-> m.Cols, Data |-> m.Data, held |-> TRUE]

\* an input matrix of every shape, empty shapes included, with entries that
\* differ from one another
LawInputs ==
    {Held(Fill(rows, cols,
               LAMBDA i, j : NewQI(Ratio(i + 1, j + 1), Ratio(i - j, 1)))) :
        rows \in 0..MaxRows, cols \in 0..MaxRows}

\* Id and Zero circuits over these Objects
LawPool ==
    {Circuit(dom, cod, PrimId, NoValue, <<>>) :
        dom \in ObjectPool, cod \in {O1}}
    \cup {Circuit(dom, cod, PrimZero, NoValue, <<>>) :
            dom \in {OUnit, O2}, cod \in ObjectPool}

\* a circuit of a reserved primitive, and a composite that has it as a child
cTrace == Circuit(O1, O1, PrimTrace, NoValue, <<>>)
cNest == Circuit(O1, O1, PrimCompose, NoValue, <<PutKey(cTrace), PutKey(cId)>>)

\* circuits stored, and circuits executed, where primitives are told apart
PrimStorePool == {cId, cTrace, cNest}

PrimExecPool ==
    PrimPool
    \cup {Circuit(O1, O1, prim, NoValue, <<PutKey(f), PutKey(g)>>) :
            prim \in {PrimCompose, PrimTensor, PrimAdd},
            f \in PrimStorePool, g \in PrimStorePool}
    \cup {Circuit(O1, O1, PrimScale, MakeRat(1, 2), <<PutKey(f)>>) :
            f \in PrimStorePool}

\* a circuit whose execution panics: Prepare of a matrix Value with more
\* entries than rows*cols
cBoom == Circuit(OUnit, O1, PrimPrepare, LongMatrix, <<>>)

\* circuits stored, and the Compose circuits executed over them
ComposeStorePool == {cId, cZero, cTrace, cBoom}

ComposeExecPool ==
    {Circuit(f.Domain, g.Codomain, PrimCompose, NoValue, <<PutKey(f), PutKey(g)>>) :
        f \in ComposeStorePool, g \in ComposeStorePool}

\* the composite f;g
Seq2(f, g) ==
    Circuit(f.Domain, g.Codomain, PrimCompose, NoValue, <<PutKey(f), PutKey(g)>>)

\* circuits that refer to one another: a Compose without children and the
\* same circuit with two children that name it, composites of depth one and
\* two, a Scale above them, and circuits with a child that is stored nowhere
gBase == Circuit(O1, O1, PrimCompose, NoValue, <<>>)
gSelf == Circuit(O1, O1, PrimCompose, NoValue, <<PutKey(gBase), PutKey(gBase)>>)
gInner == Seq2(cId, cId)
gOuter == Seq2(gInner, cId)
gScale == Circuit(O1, O1, PrimScale, MakeRat(1, 2), <<PutKey(gOuter)>>)
gDangling == Circuit(O1, O1, PrimAdd, NoValue, <<PutKey(cId), Missing>>)
gTensor == Circuit(O1, O1, PrimTensor, NoValue, <<PutKey(gOuter), PutKey(gScale)>>)
GraphStorePool == {cId, cZero, gBase, gSelf, gInner, gOuter, gScale}
GraphExecPool == GraphStorePool \cup {gDangling, gTensor}

\* children for Tensor: Id, two Prepare circuits whose matrices do not
\* commute under Kronecker, a reserved primitive (an error) and a Prepare
\* whose data makes MatrixFromValue panic
tPrepSquare ==
    Circuit(OUnit, O2, PrimPrepare,
            MatrixToValue(Mat(2, 2, <<Q(1, 1), Q(2, 1), Q(3, 1), Q(4, 1)>>)), <<>>)
tPrepCol == Circuit(OUnit, O2, PrimPrepare, MatrixToValue(Col2), <<>>)
TensorStorePool == {cId, tPrepSquare, tPrepCol, cTrace, cBoom}
TensorExecPool ==
    {Circuit(O1, O1, PrimTensor, NoValue, <<PutKey(f), PutKey(g)>>) :
        f \in TensorStorePool, g \in TensorStorePool}

\* Choi matrices of every shape with 1, 2 or 4 rows and columns, with
\* entries that differ from one another
ChoiMatrices ==
    {Fill(rows, cols, LAMBDA i, j : NewQI(Ratio(i + 2, j + 1), Ratio(j - i, 1))) :
        rows \in {1, 2, 4}, cols \in {1, 2, 4}}

\* Choi circuits between Objects of dimension 1 and 2
ChoiPool ==
    {Circuit(dom, cod, PrimChoi, MatrixToValue(J), <<>>) :
        dom \in {O1, O2}, cod \in {O1, O2}, J \in ChoiMatrices}

\* inputs of every shape whose diagonal entries differ from one another
DiscardInputs ==
    {Fill(rows, cols,
          LAMBDA i, j : NewQI(Ratio(i + 2 * j + 1, 1), Ratio(i + j + 1, 2))) :
        rows \in 0..MaxRows, cols \in 0..MaxRows}

\* Discard circuits over every Object
DiscardPool ==
    {Circuit(dom, OUnit, PrimDiscard, NoValue, <<>>) : dom \in ObjectPool}

\* Scale circuits with one child: the child is Id, a reserved primitive, a
\* Prepare that panics, or stored nowhere; the data is absent, Nil, an Int,
\* a matrix or a Rat
ScaleStorePool == {cId, cTrace, cBoom}
ScaleDataPool ==
    {NoValue, MakeNil, MakeInt(2), MatrixToValue(M1),
     MakeRat(1, 2), MakeRat(-3, 1), MakeRat(0, 1)}
ScaleExecPool ==
    {Circuit(O1, O1, PrimScale, data, <<k>>) :
        data \in ScaleDataPool,
        k \in {PutKey(c) : c \in ScaleStorePool} \cup {Missing}}

\* Compose and Add circuits over every pair of Id, a reserved primitive and
\* a Prepare that panics
ResolveStorePool == {cId, cTrace, cBoom}
ResolveExecPool ==
    {Circuit(O1, O1, prim, NoValue, <<PutKey(f), PutKey(g)>>) :
        prim \in {PrimCompose, PrimAdd},
        f \in ResolveStorePool, g \in ResolveStorePool}

\* three circuits, and every composite of two of them
cSwap2 == Circuit(O2, O2, PrimSwap, NoValue, <<>>)
AssocLeaves == {cZero, cSwap2, cTrace}
AssocInner == {Seq2(f, g) : f \in AssocLeaves, g \in AssocLeaves}

\* (f;g);h and f;(g;h)
AssocPool ==
    {Seq2(Seq2(f, g), h) : f \in AssocLeaves, g \in AssocLeaves, h \in AssocLeaves}
    \cup {Seq2(f, Seq2(g, h)) :
            f \in AssocLeaves, g \in AssocLeaves, h \in AssocLeaves}

\* the circuit map after Put of every circuit of the set S
RECURSIVE PutAll(_, _)
PutAll(cs, S) ==
    IF S = {} THEN cs
    ELSE LET c == CHOOSE x \in S : TRUE
         IN  PutAll(PutCircuits(cs, c), S \ {c})

\* the value map after Put of every circuit of the set S
RECURSIVE PutAllValues(_, _)
PutAllValues(vs, S) ==
    IF S = {} THEN vs
    ELSE LET c == CHOOSE x \in S : TRUE
         IN  PutAllValues(PutValues(vs, c), S \ {c})

\* byte strings used as Name and Version
NamePool == UNION {[1..n -> {65}] : n \in 0..MaxNameLen}

\* the four magic bytes of a container: the right ones, and each byte wrong
MagicPool ==
    {Magic, <<80, 77, 66, 1>>, <<81, 0, 66, 1>>, <<81, 77, 67, 1>>, <<81, 77, 66, 0>>}

ContainerPool ==
    [Magic : MagicPool,
     Entrypoint : {PutKey(cId), Missing},
     Name : NamePool,
     Version : {<<>>, <<49>>},
     StoreData : {<<>>, <<0>>, <<116, 101>>, Encode(CircuitToValue(cId))}]

NoBinary == [loaded |-> FALSE]

(***************************************************************************)
(* The state machine.  The specifications share the variables.  On pure    *)
(* inputs: SpecValue and SpecTwice (the Value layer), SpecCircuit and      *)
(* SpecMatrix (the conversions to and from Values), SpecDim (objectDim)    *)
(* and SpecQI (Gaussian rationals).  On a Store: Spec.  On a Store and its *)
(* Executor: SpecExec, SpecPrim, SpecLaw, SpecCompose, SpecAssoc,          *)
(* SpecGraph, SpecTensor, SpecChoi, SpecDiscard, SpecScale, SpecResolve.   *)
(* On the container and the Runner: SpecRunner.                            *)
(* A call on pure inputs is made from a state whose op holds the inputs    *)
(* drawn for it.                                                           *)
(***************************************************************************)
Fresh ==
    /\ circuits = EmptyMap
    /\ values = EmptyMap
    /\ binary = NoBinary
    /\ ret = [kind |-> "none"]

\* NewStore(): both maps empty, no Runner
Init == Fresh /\ op = [name |-> "NewStore"]

\* a circuit
InitCircuit ==
    Fresh /\ \E c \in RoundTripPool : op = [name |-> "circuit", c |-> c]

\* a matrix
InitMatrix ==
    Fresh /\ \E m \in MatrixPool : op = [name |-> "matrix", m |-> m]

\* an Object
InitDim ==
    Fresh /\ \E obj \in DimPool : op = [name |-> "object", obj |-> obj]

\* two Gaussian rationals
InitQI ==
    Fresh /\ \E a \in NumeratorPool, b \in QIPool :
                 op = [name |-> "qi", a |-> a, b |-> b]

\* a fresh Store, or two Values constructed one after the other
InitTwice ==
    Fresh /\ \/ op = [name |-> "NewStore"]
             \/ \E a \in TwicePool, b \in TwicePool :
                    op = [name |-> "values", a |-> a, b |-> b]

\* two Values
InitValue ==
    Fresh /\ \E a \in ValueUniverse, b \in ValueUniverse :
                 op = [name |-> "values", a |-> a, b |-> b]

\* a container e and a buffer made from its encoding: the first n bytes or,
\* at full length, the encoding with 256 added to the name or version length
InitRunner ==
    Fresh /\ \E e \in ContainerPool :
                 \/ \E n \in 0..Len(BinaryEncode(e)) :
                        op = [name |-> "container", e |-> e, n |-> n, patch |-> 0]
                 \/ \E at \in {39, 43 + Len(e.Name)} :
                        op = [name |-> "container", e |-> e,
                              n |-> Len(BinaryEncode(e)), patch |-> at]

\* the buffer drawn in op
Buffer ==
    LET enc == Take(BinaryEncode(op.e), op.n)
    IN  IF op.patch = 0 THEN enc ELSE [enc EXCEPT ![op.patch] = 1]

\* a store into which the three circuits and their composites have been Put
InitAssoc ==
    /\ circuits = PutAll(EmptyMap, AssocLeaves \cup AssocInner)
    /\ values = PutAllValues(EmptyMap, AssocLeaves \cup AssocInner)
    /\ binary = NoBinary
    /\ op = [name |-> "NewStore"]
    /\ ret = [kind |-> "none"]

\* Equal(a, b), a.Encode(), b.Encode(), QGID(a), QGID(b)
Compare ==
    /\ op.name = "values"
    /\ op' = [name |-> "Equal", a |-> op.a, b |-> op.b]
    /\ ret' = [eq |-> Equal(op.a, op.b),
               encA |-> Encode(op.a), encB |-> Encode(op.b),
               idA |-> QGID(op.a), idB |-> QGID(op.b)]
    /\ UNCHANGED <<circuits, values, binary>>

\* id := store.Put(c)
Put(c) ==
    /\ circuits' = PutCircuits(circuits, c)
    /\ values' = PutValues(values, c)
    /\ op' = [name |-> "Put", c |-> c]
    /\ ret' = [id |-> PutKey(c)]
    /\ UNCHANGED binary

\* id := store.PutValue(v)
DoPutValue(v) ==
    /\ values' = PutValue(values, v)
    /\ op' = [name |-> "PutValue", v |-> v]
    /\ ret' = [id |-> QGID(v)]
    /\ UNCHANGED <<circuits, binary>>

\* loadStoreData(store, data) on the store NewStore() returned, as NewRunner calls it
LoadStoreData(data) ==
    /\ op.name = "NewStore"
    /\ values' = loadStoreData(values, data)
    /\ op' = [name |-> "loadStoreData", data |-> data]
    /\ ret' = [kind |-> "ok"]
    /\ UNCHANGED <<circuits, binary>>

MutDoExecute(c, input) ==
    /\ op' = [name |-> "Execute", c |-> c, input |-> input]
    /\ ret' = Execute(circuits, c, input)
    /\ values' = IF Execute(circuits, c, input).kind = "ok"
                 THEN PutValue(values, MatrixToValue(Execute(circuits, c, input).m))
                 ELSE values
    /\ UNCHANGED <<circuits, binary>>

MutDoExecuteCached(c, input) ==
    /\ op' = [name |-> "Execute", c |-> c, input |-> input]
    /\ ret' = IF "kind" \in DOMAIN ret /\ ret.kind = "ok" THEN ret
               ELSE Execute(circuits, c, input)
    /\ UNCHANGED <<circuits, values, binary>>

\* NewExecutor(store).Execute(c, input)
DoExecute(c, input) ==
    /\ op' = [name |-> "Execute", c |-> c, input |-> input]
    /\ ret' = Execute(circuits, c, input)
    /\ UNCHANGED <<circuits, values, binary>>

\* the call of Execute that has just returned, made once more on the same
\* Executor: op keeps what the first call returned
ExecuteAgain ==
    /\ op.name = "Execute"
    /\ op' = [name |-> "ExecuteAgain", c |-> op.c, input |-> op.input, first |-> ret]
    /\ ret' = Execute(circuits, op.c, op.input)
    /\ UNCHANGED <<circuits, values, binary>>

\* Decode(data), data the first n bytes of e.Encode()
DoDecode ==
    /\ op.name = "container"
    /\ op' = [name |-> "Decode", data |-> Buffer]
    /\ ret' = Decode(Buffer)
    /\ UNCHANGED <<circuits, values, binary>>

\* Decode(e.Encode())
EncodeDecode ==
    /\ op.name = "container"
    /\ op.n = Len(BinaryEncode(op.e))
    /\ op.patch = 0
    /\ op' = [name |-> "EncodeDecode", e |-> op.e]
    /\ ret' = Decode(BinaryEncode(op.e))
    /\ UNCHANGED <<circuits, values, binary>>

\* NewRunner(data): Decode, NewStore, loadStoreData, NewExecutor
NewRunner ==
    /\ op.name = "container"
    /\ LET data == Buffer
       IN  /\ op' = [name |-> "NewRunner", data |-> data]
           /\ IF Decode(data).ok
              THEN /\ binary' = Decode(data).b
                   /\ circuits' = EmptyMap
                   /\ values' = loadStoreData(EmptyMap, Decode(data).b.StoreData)
                   /\ ret' = [kind |-> "ok"]
              ELSE /\ ret' = Err("decode failed")
                   /\ UNCHANGED <<circuits, values, binary>>

\* runner.Run(input)
Run(input) ==
    /\ binary # NoBinary
    /\ op' = [name |-> "Run", input |-> input]
    /\ ret' = IF ~Get(circuits, binary.Entrypoint).ok
              THEN Err("entrypoint circuit not found")
              ELSE Execute(circuits, Get(circuits, binary.Entrypoint).c, input)
    /\ UNCHANGED <<circuits, values, binary>>

\* CircuitFromValue(CircuitToValue(c))
CircuitRoundTrip ==
    /\ op.name = "circuit"
    /\ op' = [name |-> "CircuitFromValue", c |-> op.c]
    /\ ret' = CircuitFromValue(CircuitToValue(op.c))
    /\ UNCHANGED <<circuits, values, binary>>

\* MatrixFromValue(MatrixToValue(m))
MatrixRoundTrip ==
    /\ op.name = "matrix"
    /\ op' = [name |-> "MatrixFromValue", m |-> op.m]
    /\ ret' = MatrixFromValue(MatrixToValue(op.m))
    /\ UNCHANGED <<circuits, values, binary>>

\* objectDim(obj): the result as digits, and as an integer where it is one
ObjectDim ==
    /\ op.name = "object"
    /\ op' = [name |-> "objectDim", obj |-> op.obj]
    /\ ret' = [wide |-> objectDimWide(op.obj), dim |-> objectDim(op.obj)]
    /\ UNCHANGED <<circuits, values, binary>>

\* QIInv(b), QIMul(b, inv) and QIDiv(a, b)
Invert ==
    /\ op.name = "qi"
    /\ op' = [name |-> "QIInv", a |-> op.a, b |-> op.b]
    /\ ret' = [inv |-> QIInv(op.b),
               prod |-> QIMul(op.b, QIInv(op.b).q),
               div |-> QIDiv(op.a, op.b)]
    /\ UNCHANGED <<circuits, values, binary>>

\* the Value layer
NextValue == Compare

SpecValue == InitValue /\ [][NextValue]_vars

\* the conversion of circuits to Values and back
NextCircuit == CircuitRoundTrip

SpecCircuit == InitCircuit /\ [][NextCircuit]_vars

\* the conversion of matrices to Values and back
NextMatrix == MatrixRoundTrip

SpecMatrix == InitMatrix /\ [][NextMatrix]_vars

\* the dimension of an Object
NextDim == ObjectDim

SpecDim == InitDim /\ [][NextDim]_vars

\* the inverse and the quotient of Gaussian rationals
NextQI == Invert

SpecQI == InitQI /\ [][NextQI]_vars

\* digests of Values constructed twice, and calls of Execute made twice
NextTwice ==
    \/ Compare
    \/ \E c \in ComposeStorePool : Put(c)
    \/ \E c \in ComposeExecPool, input \in InputPool : DoExecute(c, input)
    \/ ExecuteAgain

SpecTwice == InitTwice /\ [][NextTwice]_vars

\* a Store of circuits that refer to one another, and its Executor
NextGraph ==
    \/ \E c \in GraphStorePool : Put(c)
    \/ \E c \in GraphExecPool, input \in {M1, I2} : DoExecute(c, input)

SpecGraph == Init /\ [][NextGraph]_vars

\* a Store of children, and the Executor on Tensor circuits over them
NextTensor ==
    \/ \E c \in TensorStorePool : Put(c)
    \/ \E c \in TensorExecPool, input \in InputPool : DoExecute(c, input)

SpecTensor == Init /\ [][NextTensor]_vars

\* the Executor on Choi circuits
NextChoi ==
    \/ Put(cId)
    \/ \E c \in ChoiPool, input \in LawInputs : DoExecute(c, input)

SpecChoi == Init /\ [][NextChoi]_vars

\* the Executor on Discard circuits
NextDiscard ==
    \/ Put(cId)
    \/ \E c \in DiscardPool, input \in DiscardInputs : DoExecute(c, input)

SpecDiscard == Init /\ [][NextDiscard]_vars

\* a Store of children, and the Executor on Scale circuits over them
NextScale ==
    \/ \E c \in ScaleStorePool : Put(c)
    \/ \E c \in ScaleExecPool, input \in InputPool : DoExecute(c, input)

SpecScale == Init /\ [][NextScale]_vars

\* a Store that holds some of the children, and the Executor on Compose and
\* Add circuits over them
NextResolve ==
    \/ \E c \in ResolveStorePool : Put(c)
    \/ \E c \in ResolveExecPool, input \in InputPool : DoExecute(c, input)

SpecResolve == Init /\ [][NextResolve]_vars

\* a Store: insertion and loading
Next ==
    \/ \E c \in StorePool : Put(c)
    \/ \E v \in StoreValuePool : DoPutValue(v)
    \/ \E e \in ContainerPool : LoadStoreData(e.StoreData)

Spec == Init /\ [][Next]_vars

\* a Store and its Executor
NextExec ==
    \/ \E c \in ChildPool : Put(c)
    \/ \E c \in ExecPool, input \in InputPool : DoExecute(c, input)

SpecExec == Init /\ [][NextExec]_vars

\* a Store holding circuits of reserved primitives, and its Executor
NextPrim ==
    \/ \E c \in PrimStorePool : Put(c)
    \/ \E c \in PrimExecPool, input \in InputPool : DoExecute(c, input)

SpecPrim == Init /\ [][NextPrim]_vars

\* a Store and its Executor, on Id and Zero circuits
NextLaw ==
    \/ Put(cId)
    \/ \E c \in LawPool, input \in LawInputs : DoExecute(c, input)

SpecLaw == Init /\ [][NextLaw]_vars

\* a Store and its Executor, on Compose circuits
NextCompose ==
    \/ \E c \in ComposeStorePool : Put(c)
    \/ \E c \in ComposeExecPool, input \in InputPool : DoExecute(c, input)

SpecCompose == Init /\ [][NextCompose]_vars

\* a Store holding composites, and its Executor
NextAssoc ==
    \/ \E c \in AssocLeaves \cup AssocInner : Put(c)
    \/ \E c \in AssocPool, input \in InputPool : DoExecute(c, input)

SpecAssoc == InitAssoc /\ [][NextAssoc]_vars

\* the container and the Runner
NextRunner ==
    \/ DoDecode
    \/ EncodeDecode
    \/ NewRunner
    \/ \E input \in InputPool : Run(input)

SpecRunner == InitRunner /\ [][NextRunner]_vars

(***************************************************************************)
(* A check of the digest used for sha256: over the Values compared in      *)
(* SpecValue, different encodings get different digests.                   *)
(***************************************************************************)
DigestSeparates ==
    op.name = "Equal" => (ret.encA # ret.encB => ret.idA # ret.idB)

(***************************************************************************)
(* Properties of the Value layer (SpecValue).                              *)
(***************************************************************************)

\* C1: two Values are Equal exactly when their canonical encodings are the
\* same bytes, and Values with the same encoding have the same QGID.
C1_EqualIffSameEncoding ==
    op.name = "Equal" =>
        /\ ret.eq <=> (ret.encA = ret.encB)
        /\ (ret.encA = ret.encB) => (ret.idA = ret.idB)

(***************************************************************************)
(* Properties of the Store (Spec).                                         *)
(***************************************************************************)

\* C3: every key of the circuit map is the QGID of the Value form of the
\* circuit stored under it, and every key of the value map is the QGID of
\* the Value stored under it.
C3_KeysAreDigests ==
    /\ \A id \in DOMAIN circuits : id = QGID(CircuitToValue(circuits[id]))
    /\ \A id \in DOMAIN values : id = QGID(values[id])

\* a store that has been loaded, then filled by Put and PutValue
C3_Witness ==
    /\ op.name = "PutValue"
    /\ Cardinality(DOMAIN circuits) >= 2
    /\ \E id \in DOMAIN values : values[id].k = "Bytes"
    /\ \E id \in DOMAIN values : values[id].k = "Int"

\* C4: the store only grows: an entry once present stays present and is
\* never replaced by a different circuit or Value.
C4_EntriesNeverChange ==
    [][/\ \A id \in DOMAIN circuits :
              id \in DOMAIN circuits' /\ circuits'[id] = circuits[id]
       /\ \A id \in DOMAIN values :
              id \in DOMAIN values' /\ values'[id] = values[id]]_vars

\* C5: after Put(c) the circuit is found under the identifier returned, the
\* identifier is the one a second Put(c) returns, and a second Put(c)
\* leaves both maps as they are.
C5_PutIdempotent ==
    op.name = "Put" =>
        /\ Get(circuits, ret.id) = [ok |-> TRUE, c |-> op.c]
        /\ PutKey(op.c) = ret.id
        /\ PutCircuits(circuits, op.c) = circuits
        /\ PutValues(values, op.c) = values
        /\ values[ret.id] = CircuitToValue(op.c)

\* a Put into a store that already holds other circuits and values
C5_Witness ==
    /\ op.name = "Put"
    /\ op.c = cZero
    /\ Cardinality(DOMAIN circuits) >= 3
    /\ Cardinality(DOMAIN values) > Cardinality(DOMAIN circuits)

(***************************************************************************)
(* Properties of the container and the Runner (SpecRunner).                *)
(***************************************************************************)

\* the container names as entrypoint a circuit whose canonical encoding is
\* its store data
CarriesEntrypoint ==
    /\ binary # NoBinary
    /\ \E c \in StorePool :
           /\ binary.Entrypoint = QGID(CircuitToValue(c))
           /\ binary.StoreData = Encode(CircuitToValue(c))

\* C2: a Runner built from a container that carries its entrypoint circuit
\* in the store data resolves the entrypoint: the circuit is in the store
\* and Run does not fail with "entrypoint circuit not found".
C2_EntrypointResolves ==
    /\ (op.name = "NewRunner" /\ ret.kind = "ok" /\ CarriesEntrypoint)
           => Get(circuits, binary.Entrypoint).ok
    /\ (op.name = "Run" /\ CarriesEntrypoint)
           => ret # Err("entrypoint circuit not found")

\* C6 as stated: Decode(Encode(e)) succeeds and gives back e, for every
\* container e.
C6_RoundTripEveryContainer ==
    op.name = "EncodeDecode" => (ret.ok /\ ret.b = op.e)

\* C6: for every container e whose Magic is 51 4D 42 01, Decode(Encode(e))
\* succeeds and gives back the Magic, Entrypoint, Name, Version and
\* StoreData of e.
C6_RoundTripValidMagic ==
    (op.name = "EncodeDecode" /\ op.e.Magic = Magic) =>
        /\ ret.ok
        /\ ret.b.Magic = op.e.Magic
        /\ ret.b.Entrypoint = op.e.Entrypoint
        /\ ret.b.Name = op.e.Name
        /\ ret.b.Version = op.e.Version
        /\ ret.b.StoreData = op.e.StoreData

\* a round trip of a container with a name, a version and store data
C6_Witness ==
    /\ op.name = "EncodeDecode"
    /\ op.e.Magic = Magic
    /\ Len(op.e.Name) >= 2
    /\ Len(op.e.Version) = 1
    /\ Len(op.e.StoreData) > 2
    /\ ret.ok

\* the unsigned 32-bit big-endian number at 0-based offset o of d
Declared(d, o) ==
    ((d[o + 1] * 256 + d[o + 2]) * 256 + d[o + 3]) * 256 + d[o + 4]

\* the buffer d holds a whole container
WellFormed(d) ==
    /\ Len(d) >= 4
    /\ SubSeq(d, 1, 4) = <<81, 77, 66, 1>>
    /\ Len(d) >= 40
    /\ Len(d) >= 44 + Declared(d, 36)
    /\ Len(d) >= 44 + Declared(d, 36) + Declared(d, 40 + Declared(d, 36))

ChildrenPresent(c) ==
    /\ Len(c.Children) = 2
    /\ Get(circuits, c.Children[1]).ok
    /\ Get(circuits, c.Children[2]).ok

\* the input does not have the shape the primitive of c works on
ShapeMismatch(c, input) ==
    \/ /\ c.Prim = PrimUnitary
       /\ MatrixFromValue(c.Data).st = "ok"
       /\ MatrixFromValue(c.Data).m.Cols # input.Rows
    \/ /\ c.Prim = PrimSwap
       /\ \/ input.Rows # objectDim(c.Domain)
          \/ input.Cols # objectDim(c.Domain)
    \/ /\ c.Prim = PrimAdd
       /\ ChildrenPresent(c)
       /\ LET f == Execute(circuits, Get(circuits, c.Children[1]).c, input)
              g == Execute(circuits, Get(circuits, c.Children[2]).c, input)
          IN  /\ f.kind = "ok"
              /\ g.kind = "ok"
              /\ f.m.Rows # g.m.Rows \/ f.m.Cols # g.m.Cols

\* C8: Execute never returns neither a matrix nor an error, and an input
\* whose shape does not fit the primitive makes it return an error.
C8_MismatchIsError ==
    op.name = "Execute" =>
        /\ ret.kind # "nil"
        /\ ShapeMismatch(op.c, op.input) => ret.kind = "err"

\* the Data of a circuit is a matrix Value that does not describe a matrix
Malformed(v) ==
    \/ ~matrixShapeOk(v)
    \/ /\ matrixShapeOk(v)
       /\ LET rows == v.payload.items[1].i
              cols == v.payload.items[2].i
          IN  \/ rows < 0
              \/ cols < 0
              \/ Len(v.payload.items[3].items) > rows * cols

\* C9: Execute of a Unitary, Choi or Prepare circuit whose Data is not a
\* well-formed matrix returns an error.
C9_MalformedDataIsError ==
    (/\ op.name = "Execute"
     /\ op.c.Prim \in {PrimUnitary, PrimChoi, PrimPrepare}
     /\ Malformed(op.c.Data))
        => ret.kind = "err"

\* C10: Execute of a Compose circuit whose first child's codomain is not
\* the second child's domain returns an error.
C10_ComposeIsTypeChecked ==
    (/\ op.name = "Execute"
     /\ op.c.Prim = PrimCompose
     /\ ChildrenPresent(op.c)
     /\ ~ObjectEqual(Get(circuits, op.c.Children[1]).c.Codomain,
                     Get(circuits, op.c.Children[2]).c.Domain))
        => ret.kind = "err"

\* a digest of the children of c, among the first n, is no key of the
\* circuit map
ChildAbsent(c, n) ==
    \E j \in 1..n : c.Children[j] \notin DOMAIN circuits

\* C11: Execute of a Compose, Tensor or Add circuit with two children, or
\* of a Scale circuit with one child, returns an error and no matrix when
\* a child digest is not in the circuit map.
C11_MissingChildIsError ==
    (/\ op.name = "Execute"
     /\ \/ /\ op.c.Prim \in {PrimCompose, PrimTensor, PrimAdd}
           /\ Len(op.c.Children) = 2
           /\ ChildAbsent(op.c, 2)
        \/ /\ op.c.Prim = PrimScale
           /\ Len(op.c.Children) = 1
           /\ ChildAbsent(op.c, 1))
        => ret.kind = "err"

\* an Add whose first child is in the store and whose second is not
C11_Witness ==
    /\ op.name = "Execute"
    /\ op.c.Prim = PrimAdd
    /\ Len(op.c.Children) = 2
    /\ op.c.Children[1] \in DOMAIN circuits
    /\ op.c.Children[2] \notin DOMAIN circuits
    /\ ret.kind = "err"

\* C12: Execute of a Compose, Tensor or Add circuit that does not have
\* exactly two children, or of a Scale circuit that does not have exactly
\* one, returns the error of the count check, which comes before any child
\* is looked up or executed.
C12_WrongChildCountIsError ==
    op.name = "Execute" =>
        /\ (op.c.Prim = PrimCompose /\ Len(op.c.Children) # 2)
               => ret = Err("compose requires 2 children")
        /\ (op.c.Prim = PrimTensor /\ Len(op.c.Children) # 2)
               => ret = Err("tensor requires 2 children")
        /\ (op.c.Prim = PrimAdd /\ Len(op.c.Children) # 2)
               => ret = Err("add requires 2 children")
        /\ (op.c.Prim = PrimScale /\ Len(op.c.Children) # 1)
               => ret = Err("scale requires 1 child")

\* a Scale with a factor and two children, both in the store
C12_Witness ==
    /\ op.name = "Execute"
    /\ op.c.Prim = PrimScale
    /\ op.c.Data.k = "Rat"
    /\ Len(op.c.Children) = 2
    /\ \A j \in 1..2 : op.c.Children[j] \in DOMAIN circuits
    /\ ret.kind = "err"

\* the primitives Execute has a case for
Supported ==
    {PrimId, PrimCompose, PrimTensor, PrimSwap, PrimDiscard, PrimChoi,
     PrimUnitary, PrimPrepare, PrimAdd, PrimScale, PrimZero}

\* C13 as stated: Execute fails with "unsupported primitive" exactly for
\* the circuits whose primitive is none of the eleven supported ones.
C13_UnsupportedExactlyReserved ==
    op.name = "Execute" =>
        (ret = Err("unsupported primitive") <=> op.c.Prim \notin Supported)

\* c is a circuit of no supported primitive, or has such a circuit among
\* the stored circuits reached from it through at most n levels of children
RECURSIVE ReachesReserved(_, _)
ReachesReserved(c, n) ==
    \/ c.Prim \notin Supported
    \/ /\ n > 0
       /\ c.Prim \in {PrimCompose, PrimTensor, PrimAdd, PrimScale}
       /\ \E j \in 1..Len(c.Children) :
              /\ c.Children[j] \in DOMAIN circuits
              /\ ReachesReserved(circuits[c.Children[j]], n - 1)

\* C13: Execute fails with "unsupported primitive" for every circuit whose
\* primitive is none of the eleven supported ones, whatever the input and
\* the store; a circuit of a supported primitive fails with it only when it
\* has children and a stored circuit reached through them is of no
\* supported primitive.
C13_UnsupportedOnlyFromReserved ==
    op.name = "Execute" =>
        /\ op.c.Prim \notin Supported => ret = Err("unsupported primitive")
        /\ ret = Err("unsupported primitive")
               => ReachesReserved(op.c, Cardinality(DOMAIN circuits))

\* a Compose that passes on the error of a reserved primitive two levels
\* below it
C13_Witness ==
    /\ op.name = "Execute"
    /\ op.c.Prim = PrimCompose
    /\ Len(op.c.Children) = 2
    /\ op.c.Children[1] = PutKey(cNest)
    /\ ret = Err("unsupported primitive")

\* C14: a call of Execute, whether it returns a matrix, an error or
\* neither, and whatever children it executes on the way, leaves the
\* circuit map and the value map of the store as they were.
C14_ExecuteLeavesStore ==
    [][op'.name = "Execute" => (circuits' = circuits /\ values' = values)]_vars

\* an Execute that ran both stored children of a Compose and returned a
\* matrix
C14_Witness ==
    /\ op.name = "Execute"
    /\ op.c.Prim = PrimCompose
    /\ Len(op.c.Children) = 2
    /\ op.c.Children[1] \in DOMAIN circuits
    /\ op.c.Children[2] \in DOMAIN circuits
    /\ ret.kind = "ok"
    /\ Cardinality(DOMAIN values) = 2

(***************************************************************************)
(* Laws of the primitives (SpecLaw).                                       *)
(***************************************************************************)

\* C15: Execute of an Id circuit, whatever its domain and codomain, on an
\* input matrix of any shape returns a matrix with the rows, columns and
\* entries of the input, and that matrix is a new object, not the input.
C15_IdReturnsCopy ==
    (op.name = "Execute" /\ op.c.Prim = PrimId) =>
        /\ ret.kind = "ok"
        /\ ret.m.Rows = op.input.Rows
        /\ ret.m.Cols = op.input.Cols
        /\ Len(ret.m.Data) = Len(op.input.Data)
        /\ \A x \in 1..Len(ret.m.Data) : QIEqual(ret.m.Data[x], op.input.Data[x])
        /\ "held" \notin DOMAIN ret.m

\* an Id circuit whose domain is not the input's dimension, on a 2x2 input
C15_Witness ==
    /\ op.name = "Execute"
    /\ op.c.Prim = PrimId
    /\ objectDim(op.c.Domain) # op.input.Rows
    /\ op.input.Rows = 2
    /\ op.input.Cols = 2
    /\ ret.kind = "ok"
    /\ ~QIIsZero(ret.m.Data[2])

\* C18: Execute of a Zero circuit, whatever its domain, on an input matrix
\* of any shape returns the square matrix of dimension objectDim(codomain)
\* whose entries are all zero.
C18_ZeroAbsorbs ==
    (op.name = "Execute" /\ op.c.Prim = PrimZero) =>
        /\ ret.kind = "ok"
        /\ ret.m.Rows = objectDim(op.c.Codomain)
        /\ ret.m.Cols = objectDim(op.c.Codomain)
        /\ Len(ret.m.Data) = objectDim(op.c.Codomain) * objectDim(op.c.Codomain)
        /\ \A x \in 1..Len(ret.m.Data) : QIIsZero(ret.m.Data[x])

\* a Zero circuit with a codomain of dimension 5 (blocks 1 and 2) on an
\* input with nonzero entries that is not square
C18_Witness ==
    /\ op.name = "Execute"
    /\ op.c.Prim = PrimZero
    /\ op.c.Codomain.Blocks = <<1, 2>>
    /\ op.input.Rows = 1
    /\ op.input.Cols = 2
    /\ ret.kind = "ok"
    /\ ret.m.Rows = 5

(***************************************************************************)
(* Composition (SpecCompose).                                              *)
(***************************************************************************)

\* C16: Execute of a Compose circuit whose children f and g are both in
\* the store executes f on the input; when f fails, that failure is the
\* outcome and g is not executed; otherwise the outcome is that of g
\* executed on what f returned.
C16_ComposeFeedsLeftIntoRight ==
    (/\ op.name = "Execute"
     /\ op.c.Prim = PrimCompose
     /\ Len(op.c.Children) = 2
     /\ op.c.Children[1] \in DOMAIN circuits
     /\ op.c.Children[2] \in DOMAIN circuits)
        => LET f == circuits[op.c.Children[1]]
               g == circuits[op.c.Children[2]]
               first == Execute(circuits, f, op.input)
           IN  CASE first.kind \in {"err", "panic"} -> ret = first
                 [] first.kind = "ok" -> ret = Execute(circuits, g, first.m)
                 [] OTHER -> ret = Execute(circuits, g, NilMatrix)

\* f fails with an error and g, had it been executed, would have panicked:
\* the outcome is the error of f
C16_Witness ==
    /\ op.name = "Execute"
    /\ op.c.Prim = PrimCompose
    /\ op.c.Children = <<PutKey(cTrace), PutKey(cBoom)>>
    /\ PutKey(cTrace) \in DOMAIN circuits
    /\ PutKey(cBoom) \in DOMAIN circuits
    /\ Execute(circuits, cBoom, op.input).kind = "panic"
    /\ ret = Err("unsupported primitive")

\* C17: for stored circuits f, g, h with f;g and g;h stored as well,
\* Execute of (f;g);h has the outcome of Execute of f;(g;h) on the same
\* input: both fail alike, or both return the same matrix.
C17_ComposeAssociative ==
    (/\ op.name = "Execute"
     /\ op.c.Prim = PrimCompose
     /\ Len(op.c.Children) = 2
     /\ op.c.Children[1] \in DOMAIN circuits
     /\ op.c.Children[2] \in DOMAIN circuits
     /\ circuits[op.c.Children[1]].Prim = PrimCompose
     /\ Len(circuits[op.c.Children[1]].Children) = 2
     /\ \A j \in 1..2 : circuits[op.c.Children[1]].Children[j] \in DOMAIN circuits)
        => LET f == circuits[circuits[op.c.Children[1]].Children[1]]
               g == circuits[circuits[op.c.Children[1]].Children[2]]
               h == circuits[op.c.Children[2]]
               other == Execute(circuits, Seq2(f, Seq2(g, h)), op.input)
           IN  PutKey(Seq2(g, h)) \in DOMAIN circuits =>
                   /\ ret.kind = other.kind
                   /\ ret.kind = "ok" => MatrixEqual(ret.m, other.m)
                   /\ ret.kind = "err" => ret = other

\* (f;g);h with g failing: Zero, then the reserved Trace, then Swap
C17_Witness ==
    /\ op.name = "Execute"
    /\ op.c = Seq2(Seq2(cZero, cTrace), cSwap2)
    /\ PutKey(Seq2(cTrace, cSwap2)) \in DOMAIN circuits
    /\ ret.kind = "err"

\* C19: for every circuit c, CircuitFromValue(CircuitToValue(c)) succeeds and
\* returns a circuit whose domain, codomain, prim, data and children equal
\* those of c, a c without data included
C19_CircuitRoundTrip ==
    op.name = "CircuitFromValue" =>
        /\ ret.ok
        /\ ret.c.Domain = op.c.Domain
        /\ ret.c.Codomain = op.c.Codomain
        /\ ret.c.Prim = op.c.Prim
        /\ ret.c.Data = op.c.Data
        /\ ret.c.Children = op.c.Children

\* what the round trip does return: c with absent data replaced by Nil
RoundTripButAbsentData ==
    op.name = "CircuitFromValue" =>
        /\ ret.ok
        /\ ret.c = [op.c EXCEPT !.Data = IF @ = NoValue THEN MakeNil ELSE @]

\* C20: for every matrix M with len(Data) = Rows*Cols, shapes without rows or
\* without columns included, MatrixFromValue(MatrixToValue(M)) succeeds and
\* returns a matrix with the same Rows and Cols and entrywise equal data
C20_MatrixRoundTrip ==
    op.name = "MatrixFromValue" =>
        /\ ret.st = "ok"
        /\ ret.m.mk = "mat"
        /\ ret.m.Rows = op.m.Rows
        /\ ret.m.Cols = op.m.Cols
        /\ Len(ret.m.Data) = Len(op.m.Data)
        /\ \A x \in 1..Len(op.m.Data) : QIEqual(ret.m.Data[x], op.m.Data[x])

\* a matrix of two rows with an entry that is not real has made the round trip
C20_Witness ==
    /\ op.name = "MatrixFromValue"
    /\ op.m.Rows = 2 /\ op.m.Cols = 1
    /\ op.m.Data[2].Im # RatZero
    /\ ret.st = "ok"

\* a matrix without rows has made the round trip
C20_EmptyShapeReached ==
    /\ op.name = "MatrixFromValue"
    /\ op.m.Rows = 0 /\ op.m.Cols = 2
    /\ ret.st = "ok"

\* the sum of the squares of the first j blocks, exactly
RECURSIVE ExactSumSquares(_, _)
ExactSumSquares(blocks, j) ==
    IF j = 0 THEN Wide(0)
    ELSE WideAdd(ExactSumSquares(blocks, j - 1),
                 WideMul(Wide(blocks[j]), Wide(blocks[j])))

\* C21: objectDim returns 1 for the empty block list and, for every list of
\* positive block sizes, the exact sum of the squares of the block sizes
C21_ObjectDimExact ==
    op.name = "objectDim" =>
        IF Len(op.obj.Blocks) = 0 THEN ret.dim = 1
        ELSE ret.wide = ExactSumSquares(op.obj.Blocks, Len(op.obj.Blocks))

\* objectDim is exact where every block is below 2^16
ObjectDimExactBelow65536 ==
    (/\ op.name = "objectDim"
     /\ \A j \in 1..Len(op.obj.Blocks) : op.obj.Blocks[j] < 65536) =>
        /\ ret.dim = WideToInt(ret.wide)
        /\ IF Len(op.obj.Blocks) = 0 THEN ret.dim = 1
           ELSE ret.wide = ExactSumSquares(op.obj.Blocks, Len(op.obj.Blocks))

\* the two ways objectDim is computed agree
ObjectDimWaysAgree ==
    op.name = "objectDim" => ret.dim = WideToInt(ret.wide)

\* C22: QIInv(q) fails exactly when q = (0,0); for every other q it succeeds
\* and q * QIInv(q) = (1,0); QIDiv(a, b) fails exactly when b = (0,0)
C22_InverseExactlyNonZero ==
    op.name = "QIInv" =>
        /\ ret.inv.ok <=> ~(op.b.Re.num = 0 /\ op.b.Im.num = 0)
        /\ ~ret.inv.ok <=> QINormSq(op.b).num = 0
        /\ ret.inv.ok => QIEqual(ret.prod, QIOne)
        /\ ret.div.ok <=> ~(op.b.Re.num = 0 /\ op.b.Im.num = 0)
        /\ op.b = QII => ret.inv.q = NewQI(RatZero, RatNeg(RatOne))

\* the inverse of a Gaussian rational with both parts non-zero was taken
C22_Witness ==
    /\ op.name = "QIInv"
    /\ op.b = NewQI(Ratio(1, 2), Ratio(-2, 3))
    /\ ret.inv.ok
    /\ ret.div.ok

C23_ErrorTwiceReached ==
    /\ op.name = "ExecuteAgain"
    /\ op.first.kind = "err"
    /\ ret.kind = "err"

\* the primitives whose case of Execute calls Execute on children
Recurses(c) == c.Prim \in {PrimCompose, PrimTensor, PrimAdd, PrimScale}

\* the greatest of a finite set of naturals, 0 for the empty set
MaxOf(S) == IF S = {} THEN 0 ELSE CHOOSE x \in S : \A y \in S : y <= x

\* the length of the longest chain of nested calls Execute(c) can make when
\* every child found in the store is executed, cut off at fuel calls
RECURSIVE CallDepth(_, _, _)
CallDepth(cs, c, fuel) ==
    IF fuel = 0 THEN 0
    ELSE IF ~Recurses(c) THEN 1
    ELSE 1 + MaxOf({CallDepth(cs, cs[c.Children[j]], fuel - 1) :
                       j \in {i \in 1..Len(c.Children) : c.Children[i] \in DOMAIN cs}})

\* more calls than a store without cycles allows
Fuel == Cardinality(DOMAIN circuits) + 2

\* C24: in every store built by Put calls no stored circuit reaches its own
\* digest through children, and every call of Execute has returned after
\* chains of nested calls no longer than the store has circuits, plus one
C24_ExecuteTerminates ==
    /\ \A k \in DOMAIN circuits : CallDepth(circuits, circuits[k], Fuel) < Fuel
    /\ op.name = "Execute" =>
           /\ CallDepth(circuits, op.c, Fuel) < Fuel
           /\ ret.kind \in {"ok", "err", "nil", "panic"}

\* a Scale above a composite of a composite was executed with all of them
\* stored: a chain of four nested calls
C24_Witness ==
    /\ op.name = "Execute"
    /\ op.c = gScale
    /\ CallDepth(circuits, op.c, Fuel) = 4
    /\ ret.kind = "ok"

C25_FirstErrorReached ==
    /\ op.name = "Execute"
    /\ op.c.Prim = PrimTensor
    /\ op.c.Children = <<PutKey(cTrace), PutKey(cBoom)>>
    /\ {PutKey(cTrace), PutKey(cBoom)} \subseteq DOMAIN circuits
    /\ ret.kind = "err"

\* the Choi matrix a circuit carries
ChoiOf(c) == MatrixFromValue(c.Data).m

\* the sum over k, l below dIn of rho[l, k] * J[k * dOut + i, l * dOut + j]
ChoiSum(J, rho, dIn, dOut, i, j) ==
    SumQI(LAMBDA x : QIMul(MatrixGet(rho, x % dIn, x \div dIn),
                           MatrixGet(J, (x \div dIn) * dOut + i, (x % dIn) * dOut + j)),
          0, dIn * dIn)

\* a Choi circuit was executed on an input of its domain dimension
ChoiCall ==
    /\ op.name = "Execute"
    /\ op.c.Prim = PrimChoi
    /\ MatrixFromValue(op.c.Data).st = "ok"
    /\ op.input.Rows = objectDim(op.c.Domain)
    /\ op.input.Cols = objectDim(op.c.Domain)

C27_SmallChoiIsError ==
    (/\ ChoiCall
     /\ \/ ChoiOf(op.c).Rows < objectDim(op.c.Domain) * objectDim(op.c.Codomain)
        \/ ChoiOf(op.c).Cols < objectDim(op.c.Domain) * objectDim(op.c.Codomain)) =>
        ret.kind = "err"

\* what Execute does then: it returns the matrix computed with the entries
\* of J that are out of range left out of the sums
SmallChoiReadAsZero ==
    (/\ ChoiCall
     /\ \/ ChoiOf(op.c).Rows < objectDim(op.c.Domain) * objectDim(op.c.Codomain)
        \/ ChoiOf(op.c).Cols < objectDim(op.c.Domain) * objectDim(op.c.Codomain)) =>
        /\ ret.kind = "ok"
        /\ ret.m.Rows = objectDim(op.c.Codomain)

\* the sum of the diagonal entries of a square matrix
DiagonalSum(m) == SumQI(LAMBDA i : m.Data[i * m.Cols + i + 1], 0, m.Rows)

\* C28: Execute on a Discard circuit returns, for every input and whatever
\* the domain, a 1x1 matrix whose entry is the sum of the diagonal of a
\* square input and zero for an input that is not square
C28_DiscardIsFullTrace ==
    (op.name = "Execute" /\ op.c.Prim = PrimDiscard) =>
        /\ ret.kind = "ok"
        /\ ret.m.Rows = 1 /\ ret.m.Cols = 1
        /\ Len(ret.m.Data) = 1
        /\ QIEqual(ret.m.Data[1],
                   IF op.input.Rows = op.input.Cols THEN DiagonalSum(op.input)
                   ELSE QIZero)

\* a 2x2 input was discarded by a circuit whose domain has another dimension
C28_Witness ==
    /\ op.name = "Execute"
    /\ op.c.Prim = PrimDiscard
    /\ op.input.Rows = 2 /\ op.input.Cols = 2
    /\ objectDim(op.c.Domain) # 2
    /\ ret.kind = "ok"
    /\ ~QIIsZero(ret.m.Data[1])

\* an input that is not square was discarded
C28_NotSquareReached ==
    /\ op.name = "Execute"
    /\ op.c.Prim = PrimDiscard
    /\ op.input.Rows = 1 /\ op.input.Cols = 2
    /\ ret.kind = "ok"
    /\ QIIsZero(ret.m.Data[1])

\* C29: a Scale circuit with one child whose data is not a Rat returns the
\* error about the data whether or not the child is stored and whatever the
\* child would do; with a Rat r and a stored child that returns a matrix it
\* returns that matrix with every entry multiplied by r
C29_ScaleNeedsRat ==
    (/\ op.name = "Execute"
     /\ op.c.Prim = PrimScale
     /\ Len(op.c.Children) = 1) =>
        /\ op.c.Data.k # "Rat" => ret = Err("scale data must be Rat")
        /\ (/\ op.c.Data.k = "Rat"
            /\ op.c.Children[1] \in DOMAIN circuits
            /\ Execute(circuits, circuits[op.c.Children[1]], op.input).kind = "ok") =>
               LET f == Execute(circuits, circuits[op.c.Children[1]], op.input).m
                   r == [num |-> op.c.Data.num, den |-> op.c.Data.den]
               IN  /\ ret.kind = "ok"
                   /\ ret.m.Rows = f.Rows /\ ret.m.Cols = f.Cols
                   /\ Len(ret.m.Data) = Len(f.Data)
                   /\ \A x \in 1..Len(f.Data) :
                          QIEqual(ret.m.Data[x],
                                  NewQI(RatMul(f.Data[x].Re, r), RatMul(f.Data[x].Im, r)))

\* data that is not a Rat was refused although the child is stored nowhere
C29_Witness ==
    /\ op.name = "Execute"
    /\ op.c.Prim = PrimScale
    /\ op.c.Data = MakeInt(2)
    /\ op.c.Children = <<Missing>>
    /\ ret = Err("scale data must be Rat")

\* a matrix was scaled by -3
C29_ScaledReached ==
    /\ op.name = "Execute"
    /\ op.c.Prim = PrimScale
    /\ op.c.Data = MakeRat(-3, 1)
    /\ op.input = Col2
    /\ ret.kind = "ok"
    /\ ret.m.Data[2].Re = Ratio(-6, 1)

\* C30: a Compose or Add circuit whose first child is stored and whose
\* second child is not returns the error for child 1, whatever executing
\* the first child would have returned
C30_ResolutionPrecedesExecution ==
    (/\ op.name = "Execute"
     /\ op.c.Prim \in {PrimCompose, PrimAdd}
     /\ Len(op.c.Children) = 2
     /\ op.c.Children[1] \in DOMAIN circuits
     /\ op.c.Children[2] \notin DOMAIN circuits) =>
        ret = Err("child 1 not found")

\* the first child is a reserved primitive, whose execution fails with
\* another error, and the second child is missing
C30_Witness ==
    /\ op.name = "Execute"
    /\ op.c.Prim = PrimCompose
    /\ op.c.Children = <<PutKey(cTrace), PutKey(cId)>>
    /\ PutKey(cTrace) \in DOMAIN circuits
    /\ PutKey(cId) \notin DOMAIN circuits
    /\ Execute(circuits, cTrace, op.input).kind = "err"
    /\ Execute(circuits, cTrace, op.input) # ret
    /\ ret = Err("child 1 not found")

\* the same for Add with a first child that would panic
C30_AddReached ==
    /\ op.name = "Execute"
    /\ op.c.Prim = PrimAdd
    /\ op.c.Children = <<PutKey(cBoom), PutKey(cId)>>
    /\ PutKey(cBoom) \in DOMAIN circuits
    /\ PutKey(cId) \notin DOMAIN circuits
    /\ Execute(circuits, cBoom, op.input).kind = "panic"
    /\ ret = Err("child 1 not found")

====
